---- MODULE Spec2Model ----
(***************************************************************************)
(* A model of the AcroForm tools of pdf-tools:                             *)
(*   src/src/acroform/acroform_extractor.py  extract_form_fields,          *)
(*       get_field_options, get_contextual_text_for_field                  *)
(*   src/src/acroform/acroform_filler.py     fill_pdf_form                 *)
(*                                                                         *)
(* Conventions.                                                            *)
(*  - A Python string is a TLA+ string; + is \o.                            *)
(*  - Coordinates are integers (PDF points).  The centre of a span is kept *)
(*    doubled (x0 + x1 instead of (x0 + x1)/2) and a squared distance is   *)
(*    kept times four, so that no division is needed; on integer           *)
(*    coordinates this is exactly the float arithmetic of the code.        *)
(*  - A Python value is a tagged record [t, s, b, n]; a PDF object is a    *)
(*    tagged record [t, s].                                                *)
(***************************************************************************)
EXTENDS Integers, Sequences, FiniteSets, TLC

VARIABLES
    pc,       \* "call": the invocation in `call` has not run; "done": it has
    call,     \* the invocation: its operation and its arguments (and the world)
    ret,      \* how the invocation ended: [kind |-> "return" | "raise", val]
    groups,   \* the three word lists of get_contextual_text_for_field at its end
    opened,   \* document handles opened by the invocation
    closed,   \* document handles closed by the invocation before it ended
    fs,       \* the file system: directories, and files by path
    api       \* calls of the language model's API made by the invocation

vars == <<pc, call, ret, groups, opened, closed, fs, api>>

----------------------------------------------------------------------------
(* Bounds of the model *)

MaxWords == 5           \* words on a page given to get_contextual_text_for_field
MaxFields == 2          \* fields in /Fields
MaxCatalogWords == 1    \* words on the page of a PDF given to extract_form_fields
MaxKeys == 2            \* keys of a field mapping
MaxOptions == 2         \* items of /Opt given to get_field_options
MantissaBits == 3       \* significant bits of the floats of the Y conversion
MaxCoordinate == 40     \* largest page height and Y value of the Y conversion

----------------------------------------------------------------------------
(* Python helpers *)

Abs(x) == IF x < 0 THEN -x ELSE x

Max2(a, b) == IF a > b THEN a ELSE b

Min2(a, b) == IF a < b THEN a ELSE b

\* sep.join(items), items a sequence of strings
RECURSIVE Join(_, _)
Join(sep, items) ==
    IF items = <<>> THEN ""
    ELSE IF Len(items) = 1 THEN items[1]
    ELSE items[1] \o sep \o Join(sep, Tail(items))

\* s.startswith(prefix)
StartsWith(s, prefix) ==
    Len(s) >= Len(prefix) /\ SubSeq(s, 1, Len(prefix)) = prefix

\* tuple comparison a < b of two key tuples of the same length
RECURSIVE TupleLess(_, _)
TupleLess(a, b) ==
    IF a = <<>> THEN FALSE
    ELSE IF a[1] < b[1] THEN TRUE
    ELSE IF a[1] > b[1] THEN FALSE
    ELSE TupleLess(Tail(a), Tail(b))

\* a variant that puts c before the items with its key
RECURSIVE InsertByKeyBeforeEquals(_, _)
InsertByKeyBeforeEquals(sorted, c) ==
    IF sorted = <<>> THEN <<c>>
    ELSE IF ~TupleLess(sorted[1].key, c.key) THEN <<c>> \o sorted
    ELSE <<sorted[1]>> \o InsertByKeyBeforeEquals(Tail(sorted), c)

\* c goes after every item of the sorted list whose key is not greater (stable)
RECURSIVE InsertByKey(_, _)
InsertByKey(sorted, c) ==
    IF sorted = <<>> THEN <<c>>
    ELSE IF TupleLess(c.key, sorted[1].key) THEN <<c>> \o sorted
    ELSE <<sorted[1]>> \o InsertByKey(Tail(sorted), c)

\* list.sort(key=...): a stable sort by ascending key
RECURSIVE SortByKey(_)
SortByKey(cands) ==
    IF cands = <<>> THEN <<>>
    ELSE InsertByKey(SortByKey(SubSeq(cands, 1, Len(cands) - 1)), cands[Len(cands)])

\* a variant that keeps four: lst[:4]
FirstFour(lst) == SubSeq(lst, 1, Min2(4, Len(lst)))

\* lst[:3]
FirstThree(lst) == SubSeq(lst, 1, Min2(3, Len(lst)))

\* [c.text for c in cands]
RECURSIVE Texts(_)
Texts(cands) == IF cands = <<>> THEN <<>> ELSE <<cands[1].text>> \o Texts(Tail(cands))

IdsOf(cands) == {cands[i].id : i \in 1..Len(cands)}

----------------------------------------------------------------------------
(* get_contextual_text_for_field *)

MAX_RELEVANT_DISTANCE_SQ_OVERALL == 150 * 150
SEARCH_MARGIN_X_LEFT == 70
VERTICAL_ALIGNMENT_TOLERANCE == 10
SEARCH_MARGIN_Y_ABOVE == 30
HORIZONTAL_ALIGNMENT_TOLERANCE == 50

InvalidMsg == "Invalid page index or field coordinates for contextual analysis."
NoTextMsg == "No distinct contextual text found nearby (or heuristics need tuning)."
ErrorPrefix == "Error during contextual text extraction: "
ErrorMsg(e) == ErrorPrefix \o e
OutOfBoundsMsg(page_index) ==
    "Page index " \o ToString(page_index) \o " out of bounds for PyMuPDF."

NoGroups == [left |-> <<>>, above |-> <<>>, closest |-> <<>>]

\* a variant that does not check the number of coordinates
InvalidInputNoLength(page_index, rect) ==
    page_index < 0 \/ rect = <<>>

\* line 59
InvalidInput(page_index, rect) ==
    page_index < 0 \/ rect = <<>> \/ Len(rect) # 4

\* a variant with a horizontal margin of 30
IsLeftNarrow(w, rect, h) ==
    LET field_top_y_pymu == h - rect[4]
        field_bottom_y_pymu == h - rect[2]
    IN  /\ w.x1 < rect[1]
        /\ (rect[1] - w.x1) < 30
        /\ \/ Abs(w.y1 - field_top_y_pymu) < VERTICAL_ALIGNMENT_TOLERANCE
           \/ Abs(w.y0 - field_bottom_y_pymu) < VERTICAL_ALIGNMENT_TOLERANCE
           \/ (w.y0 < field_bottom_y_pymu /\ w.y1 > field_top_y_pymu)

\* lines 100-114; rect = <<f_x0, f_lly, f_x1, f_ury>>, h = page.rect.height
IsLeft(w, rect, h) ==
    LET field_top_y_pymu == h - rect[4]
        field_bottom_y_pymu == h - rect[2]
    IN  /\ w.x1 < rect[1]
        /\ (rect[1] - w.x1) < SEARCH_MARGIN_X_LEFT
        /\ \/ Abs(w.y1 - field_top_y_pymu) < VERTICAL_ALIGNMENT_TOLERANCE
           \/ Abs(w.y0 - field_bottom_y_pymu) < VERTICAL_ALIGNMENT_TOLERANCE
           \/ (w.y0 < field_bottom_y_pymu /\ w.y1 > field_top_y_pymu)

\* lines 97-115
RECURSIVE LeftCandidates(_, _, _)
LeftCandidates(words, rect, h) ==
    IF words = <<>> THEN <<>>
    ELSE LET w == words[1]
             rest == LeftCandidates(Tail(words), rect, h)
         IN  IF IsLeft(w, rect, h)
             THEN <<[text |-> w.text, id |-> w.id, key |-> <<-w.x1, w.y0>>]>> \o rest
             ELSE rest

\* a variant without the horizontal tolerance
IsAboveNoTolerance(w, rect, h) ==
    LET field_top_y_pymu == h - rect[4]
    IN  /\ w.y1 < field_top_y_pymu
        /\ (field_top_y_pymu - w.y1) < SEARCH_MARGIN_Y_ABOVE
        /\ Max2(rect[1], w.x0) < Min2(rect[3], w.x1)

\* lines 136-139
IsAbove(w, rect, h) ==
    LET field_top_y_pymu == h - rect[4]
    IN  /\ w.y1 < field_top_y_pymu
        /\ (field_top_y_pymu - w.y1) < SEARCH_MARGIN_Y_ABOVE
        /\ Max2(rect[1], w.x0) < Min2(rect[3], w.x1) + HORIZONTAL_ALIGNMENT_TOLERANCE

\* a variant that does not skip the claimed words
RECURSIVE AboveCandidatesNoSkip(_, _, _, _)
AboveCandidatesNoSkip(words, claimed, rect, h) ==
    IF words = <<>> THEN <<>>
    ELSE LET w == words[1]
             rest == AboveCandidatesNoSkip(Tail(words), claimed, rect, h)
         IN  IF IsAbove(w, rect, h)
             THEN <<[text |-> w.text, id |-> w.id, key |-> <<-w.y1, w.x0>>]>> \o rest
             ELSE rest

\* lines 129-140
RECURSIVE AboveCandidates(_, _, _, _)
AboveCandidates(words, claimed, rect, h) ==
    IF words = <<>> THEN <<>>
    ELSE LET w == words[1]
             rest == AboveCandidates(Tail(words), claimed, rect, h)
         IN  IF w.id \in claimed THEN rest
             ELSE IF IsAbove(w, rect, h)
             THEN <<[text |-> w.text, id |-> w.id, key |-> <<-w.y1, w.x0>>]>> \o rest
             ELSE rest

\* a variant that takes the word's center as it is, top-origin
Distance4TopOrigin(w, rect, h) ==
    LET dx2 == (w.x0 + w.x1) - (rect[1] + rect[3])
        dy2 == (w.y0 + w.y1) - (rect[2] + rect[4])
    IN  dx2 * dx2 + dy2 * dy2

\* lines 151-167, times four: (2 dx)^2 + (2 dy)^2
Distance4(w, rect, h) ==
    LET dx2 == (w.x0 + w.x1) - (rect[1] + rect[3])
        dy2 == (2 * h - (w.y0 + w.y1)) - (rect[2] + rect[4])
    IN  dx2 * dx2 + dy2 * dy2

\* line 169
IsClose(w, rect, h) == Distance4(w, rect, h) < 4 * MAX_RELEVANT_DISTANCE_SQ_OVERALL

\* lines 154-176
RECURSIVE ClosestCandidates(_, _, _, _)
ClosestCandidates(words, claimed, rect, h) ==
    IF words = <<>> THEN <<>>
    ELSE LET w == words[1]
             rest == ClosestCandidates(Tail(words), claimed, rect, h)
         IN  IF w.id \in claimed THEN rest
             ELSE IF IsClose(w, rect, h)
             THEN <<[text |-> w.text, id |-> w.id, key |-> <<Distance4(w, rect, h)>>]>> \o rest
             ELSE rest

\* a variant that claims every candidate of a pass, kept or not
HeuristicsClaimsCandidates(words, rect, h) ==
    LET leftAll == SortByKey(LeftCandidates(words, rect, h))
        claimed1 == IdsOf(leftAll)
        aboveAll == SortByKey(AboveCandidates(words, claimed1, rect, h))
        claimed2 == claimed1 \cup IdsOf(aboveAll)
        closest == FirstThree(SortByKey(ClosestCandidates(words, claimed2, rect, h)))
    IN  [left |-> FirstThree(leftAll), above |-> FirstThree(aboveAll), closest |-> closest]

\* lines 84-182: the three passes, in the order left, above, closest
Heuristics(words, rect, h) ==
    LET left == FirstThree(SortByKey(LeftCandidates(words, rect, h)))
        claimed1 == IdsOf(left)
        above == FirstThree(SortByKey(AboveCandidates(words, claimed1, rect, h)))
        claimed2 == claimed1 \cup IdsOf(above)
        closest == FirstThree(SortByKey(ClosestCandidates(words, claimed2, rect, h)))
    IN  [left |-> left, above |-> above, closest |-> closest]

\* a variant that forgets the Above segment
AssembleNoAbove(g) ==
    LET contextual_texts_output ==
               (IF g.closest # <<>>
                    THEN <<"Closest: " \o Join(" ", Texts(g.closest))>> ELSE <<>>)
            \o (IF g.left # <<>>
                    THEN <<"Left: " \o Join(" ", Texts(g.left))>> ELSE <<>>)
    IN  IF contextual_texts_output = <<>> THEN NoTextMsg
        ELSE Join(" | ", contextual_texts_output)

\* a variant that lists the segments in the order the passes ran
AssembleRunOrder(g) ==
    LET contextual_texts_output ==
               (IF g.left # <<>>
                    THEN <<"Left: " \o Join(" ", Texts(g.left))>> ELSE <<>>)
            \o (IF g.above # <<>>
                    THEN <<"Above: " \o Join(" ", Texts(g.above))>> ELSE <<>>)
            \o (IF g.closest # <<>>
                    THEN <<"Closest: " \o Join(" ", Texts(g.closest))>> ELSE <<>>)
    IN  IF contextual_texts_output = <<>> THEN NoTextMsg
        ELSE Join(" | ", contextual_texts_output)

\* lines 185-199
Assemble(g) ==
    LET contextual_texts_output ==
               (IF g.closest # <<>>
                    THEN <<"Closest: " \o Join(" ", Texts(g.closest))>> ELSE <<>>)
            \o (IF g.left # <<>>
                    THEN <<"Left: " \o Join(" ", Texts(g.left))>> ELSE <<>>)
            \o (IF g.above # <<>>
                    THEN <<"Above: " \o Join(" ", Texts(g.above))>> ELSE <<>>)
    IN  IF contextual_texts_output = <<>> THEN NoTextMsg
        ELSE Join(" | ", contextual_texts_output)

\* a variant whose handler lets the exception go
CaughtReraise(e, nopened) ==
    [kind |-> "raise", val |-> e, groups |-> NoGroups, opened |-> nopened, closed |-> 0]

\* lines 201-202: an exception raised after nopened documents were opened is
\* turned into the returned string; the handler closes nothing
Caught(e, nopened) ==
    [kind |-> "return", val |-> ErrorMsg(e), groups |-> NoGroups,
     opened |-> nopened, closed |-> 0]

\* lines 54-202.  doc: what fitz.open(pdf_path) finds; the result records how the
\* call ended, its word lists, and the document handles it opened and closed
GetContextualText(doc, page_index, rect) ==
    IF InvalidInput(page_index, rect)
    THEN [kind |-> "return", val |-> InvalidMsg, groups |-> NoGroups,
          opened |-> 0, closed |-> 0]
    ELSE IF ~doc.openable
    THEN \* line 65: fitz.open raises, no handle exists
         Caught("cannot open document", 0)
    ELSE IF page_index >= Len(doc.pages)
    THEN [kind |-> "return", val |-> OutOfBoundsMsg(page_index), groups |-> NoGroups,
          opened |-> 1, closed |-> 1]
    ELSE LET page == doc.pages[(page_index % Len(doc.pages)) + 1]
         IN  IF Len(rect) # 4
             THEN \* line 73: the unpacking of field_rect_coords raises ValueError
                  Caught("values to unpack", 1)
             ELSE IF \E i \in 1..Len(page.words) : page.words[i].arity # 8
             THEN \* line 97: the unpacking of a word tuple raises ValueError
                  Caught("values to unpack", 1)
             ELSE LET g == Heuristics(page.words, rect, page.height)
                  IN  [kind |-> "return", val |-> Assemble(g), groups |-> g,
                       opened |-> 1, closed |-> 1]

----------------------------------------------------------------------------
(* The Y conversion of lines 104-105, 127 and 163, in floating point.  The
   coordinates are Python floats (line 20) and page.rect.height is one; a float
   here has MantissaBits significant bits, and a difference is rounded to the
   nearest float, ties to the even mantissa.  The words and rectangles given to
   get_contextual_text_for_field above are small integers, on which the
   arithmetic of floats is exact *)

RECURSIVE Pow2(_)
Pow2(n) == IF n = 0 THEN 1 ELSE 2 * Pow2(n - 1)

\* the least e with n < 2^(MantissaBits + e)
RECURSIVE Exponent(_, _)
Exponent(n, e) == IF n < Pow2(MantissaBits + e) THEN e ELSE Exponent(n, e + 1)

\* the float nearest to the natural number n
RoundNat(n) ==
    LET unit == Pow2(Exponent(n, 0))
        q == n \div unit
        r == n % unit
    IN  IF 2 * r > unit \/ (2 * r = unit /\ q % 2 = 1)
        THEN (q + 1) * unit
        ELSE q * unit

RoundFloat(x) == IF x < 0 THEN -RoundNat(-x) ELSE RoundNat(x)

IsFloat(x) == RoundFloat(x) = x

\* a - b on floats
FloatSub(a, b) == RoundFloat(a - b)

\* a variant with the operands exchanged
FlipYReversed(h, y) == FloatSub(y, h)

\* lines 104-105, 127, 163: page.rect.height - y
FlipY(h, y) == FloatSub(h, y)

----------------------------------------------------------------------------
(* PDF objects, as pikepdf hands them out: [t |-> type, v |-> value] *)

Absent == [t |-> "Absent", v |-> ""]
PdfString(s) == [t |-> "String", v |-> s]
PdfName(s) == [t |-> "Name", v |-> s]
PdfInteger(n) == [t |-> "Integer", v |-> n]
PdfArray(items) == [t |-> "Array", v |-> items]

\* str(obj) of a pikepdf object or of a Python default
StrOfObject(o) ==
    IF o.t = "Integer" THEN ToString(o.v)
    ELSE IF o.t = "Array" THEN "pikepdf.Array(...)"
    ELSE o.v

\* dict.get(key, default)
Get(o, default) == IF o.t = "Absent" THEN default ELSE o

\* float(obj), int(obj): only a number converts
IsNumber(o) == o.t = "Integer"

----------------------------------------------------------------------------
(* get_field_options *)

\* a variant that prefers the first element of a pair
OptionLabelFirst(item) ==
    IF item.t = "String" THEN <<item.v>>
    ELSE IF item.t = "Array" /\ Len(item.v) = 2
    THEN IF item.v[1].t = "String" THEN <<item.v[1].v>>
         ELSE IF item.v[2].t = "String" THEN <<item.v[2].v>>
         ELSE <<"[Non-string option: " \o StrOfObject(item.v[1]) \o ", "
                \o StrOfObject(item.v[2]) \o "]">>
    ELSE IF item.t = "Name" THEN <<item.v>>
    ELSE <<>>

\* lines 37-50: the label of one /Opt item, or none
OptionLabel(item) ==
    IF item.t = "String" THEN <<item.v>>
    ELSE IF item.t = "Array" /\ Len(item.v) = 2
    THEN IF item.v[2].t = "String" THEN <<item.v[2].v>>
         ELSE IF item.v[1].t = "String" THEN <<item.v[1].v>>
         ELSE <<"[Non-string option: " \o StrOfObject(item.v[1]) \o ", "
                \o StrOfObject(item.v[2]) \o "]">>
    ELSE IF item.t = "Name" THEN <<item.v>>
    ELSE <<>>

RECURSIVE OptionLabels(_)
OptionLabels(items) ==
    IF items = <<>> THEN <<>>
    ELSE OptionLabel(items[1]) \o OptionLabels(Tail(items))

\* lines 27-52
GetFieldOptions(field) ==
    IF field.Opt.t = "Array" /\ field.Opt.v # <<>> THEN OptionLabels(field.Opt.v)
    ELSE <<>>

----------------------------------------------------------------------------
(* extract_form_fields *)

\* [float(r) for r in field.get("/Rect", [])]: the floats, or a raised TypeError
RectConverts(field) ==
    field.Rect.t = "Absent"
    \/ (field.Rect.t = "Array" /\ \A i \in 1..Len(field.Rect.v) : IsNumber(field.Rect.v[i]))

RectFloats(field) ==
    IF field.Rect.t = "Absent" THEN <<>>
    ELSE [i \in 1..Len(field.Rect.v) |-> field.Rect.v[i].v]

\* int(field.get("/Page", 0))
PageConverts(field) == IsNumber(Get(field.Page, PdfInteger(0)))

PageInt(field) == Get(field.Page, PdfInteger(0)).v

\* lines 17-24: the record of one field and the handles its context call used, or
\* the exception that a conversion raises
FieldRecord(field, doc) ==
    IF ~RectConverts(field) \/ ~PageConverts(field)
    THEN [kind |-> "raise", val |-> "TypeError", opened |-> 0, closed |-> 0]
    ELSE LET c == GetContextualText(doc, PageInt(field), RectFloats(field))
         IN  [kind |-> "return",
              val |-> [name |-> StrOfObject(Get(field.T, PdfString(""))),
                       type |-> StrOfObject(Get(field.FT, PdfString(""))),
                       rect |-> RectFloats(field),
                       page |-> [t |-> "str",
                                 v |-> StrOfObject(Get(field.Page, PdfInteger(0)))],
                       opts |-> GetFieldOptions(field),
                       text |-> c.val],
              opened |-> c.opened, closed |-> c.closed]

\* a variant that keeps one record for each field name
RECURSIVE ExtractLoopByName(_, _, _, _, _)
ExtractLoopByName(fields, doc, acc, nopened, nclosed) ==
    IF fields = <<>>
    THEN [kind |-> "return", val |-> acc, opened |-> nopened, closed |-> nclosed]
    ELSE LET r == FieldRecord(fields[1], doc)
         IN  IF r.kind = "raise"
             THEN [kind |-> "raise", val |-> r.val, opened |-> nopened, closed |-> nclosed]
             ELSE IF \E i \in 1..Len(acc) : acc[i].name = r.val.name
             THEN ExtractLoopByName(Tail(fields), doc, acc,
                                    nopened + r.opened, nclosed + r.closed)
             ELSE ExtractLoopByName(Tail(fields), doc, Append(acc, r.val),
                                    nopened + r.opened, nclosed + r.closed)

\* lines 16-25: the loop, from the records built so far
RECURSIVE ExtractLoop(_, _, _, _, _)
ExtractLoop(fields, doc, acc, nopened, nclosed) ==
    IF fields = <<>>
    THEN [kind |-> "return", val |-> acc, opened |-> nopened, closed |-> nclosed]
    ELSE LET r == FieldRecord(fields[1], doc)
         IN  IF r.kind = "raise"
             THEN [kind |-> "raise", val |-> r.val, opened |-> nopened, closed |-> nclosed]
             ELSE ExtractLoop(Tail(fields), doc, Append(acc, r.val),
                              nopened + r.opened, nclosed + r.closed)

\* lines 8-25.  pdf: what pikepdf finds at pdf_path, and pdf.doc what fitz finds there
ExtractFields(pdf) ==
    IF ~pdf.openable
    THEN [kind |-> "raise", val |-> "PdfError", opened |-> 0, closed |-> 0]
    ELSE IF ~pdf.acroform
    THEN [kind |-> "return", val |-> <<>>, opened |-> 1, closed |-> 0]
    ELSE ExtractLoop(pdf.fields, pdf.doc, <<>>, 1, 0)

----------------------------------------------------------------------------
(* Python values [t |-> type, v |-> value], files and JSON *)

PyStr(s) == [t |-> "str", v |-> s]
PyBool(b) == [t |-> "bool", v |-> b]
PyInt(n) == [t |-> "int", v |-> n]
PyDict(f) == [t |-> "dict", v |-> f]
PyList(q) == [t |-> "list", v |-> q]
PyNone == [t |-> "NoneType", v |-> ""]

\* str(value)
StrOfValue(x) ==
    IF x.t = "str" THEN x.v
    ELSE IF x.t = "bool" THEN (IF x.v THEN "True" ELSE "False")
    ELSE IF x.t = "int" THEN ToString(x.v)
    ELSE IF x.t = "NoneType" THEN "None"
    ELSE "..."

\* a JSON document [t |-> "object" | "array" | "string" | "boolean" | "number" | "null", v]
\* as json.load reads it: object -> dict, array -> list, string -> str, ...
RECURSIVE JsonLoad(_)
JsonLoad(j) ==
    IF j.t = "object" THEN PyDict([k \in DOMAIN j.v |-> JsonLoad(j.v[k])])
    ELSE IF j.t = "array" THEN PyList([i \in 1..Len(j.v) |-> JsonLoad(j.v[i])])
    ELSE IF j.t = "string" THEN PyStr(j.v)
    ELSE IF j.t = "boolean" THEN PyBool(j.v)
    ELSE IF j.t = "number" THEN PyInt(j.v)
    ELSE PyNone

\* os.path.exists(path)
Exists(world, path) == path \in DOMAIN world.files \/ path \in world.dirs

\* the last position of a "/" in path, 0 when there is none
RECURSIVE LastSlash(_, _)
LastSlash(path, i) ==
    IF i = 0 THEN 0
    ELSE IF SubSeq(path, i, i) = "/" THEN i
    ELSE LastSlash(path, i - 1)

\* os.path.dirname(path), for relative paths
Dirname(path) ==
    LET i == LastSlash(path, Len(path))
    IN  IF i = 0 THEN "" ELSE SubSeq(path, 1, i - 1)

\* json.dump(value): dict -> object, list -> array, str -> string, ...
RECURSIVE JsonDump(_)
JsonDump(x) ==
    IF x.t = "dict" THEN [t |-> "object", v |-> [k \in DOMAIN x.v |-> JsonDump(x.v[k])]]
    ELSE IF x.t = "list" THEN [t |-> "array", v |-> [i \in 1..Len(x.v) |-> JsonDump(x.v[i])]]
    ELSE IF x.t = "str" THEN [t |-> "string", v |-> x.v]
    ELSE IF x.t = "bool" THEN [t |-> "boolean", v |-> x.v]
    ELSE IF x.t = "int" THEN [t |-> "number", v |-> x.v]
    ELSE [t |-> "null", v |-> ""]

----------------------------------------------------------------------------
(* json.loads of a text, character by character.  A parse gives
   [ok, v, i]: whether a value was read, the Python value, and the position
   after it.  Strings have no escapes and numbers are unsigned integers *)

CharAt(s, i) == IF i >= 1 /\ i <= Len(s) THEN SubSeq(s, i, i) ELSE ""

Whitespace == {" ", "\n", "\t", "\r"}

Digits == <<"0", "1", "2", "3", "4", "5", "6", "7", "8", "9">>

IsDigit(c) == \E d \in 1..Len(Digits) : Digits[d] = c

DigitValue(c) == (CHOOSE d \in 1..Len(Digits) : Digits[d] = c) - 1

NoParse == [ok |-> FALSE, v |-> PyNone, i |-> 0]

RECURSIVE SkipWhitespace(_, _)
SkipWhitespace(s, i) ==
    IF CharAt(s, i) \in Whitespace THEN SkipWhitespace(s, i + 1) ELSE i

\* the first position from i on that holds c, 0 when there is none
RECURSIVE FindFrom(_, _, _)
FindFrom(s, c, i) ==
    IF i > Len(s) THEN 0
    ELSE IF SubSeq(s, i, i) = c THEN i
    ELSE FindFrom(s, c, i + 1)

\* the last position up to i that holds c, 0 when there is none
RECURSIVE FindBack(_, _, _)
FindBack(s, c, i) ==
    IF i < 1 THEN 0
    ELSE IF SubSeq(s, i, i) = c THEN i
    ELSE FindBack(s, c, i - 1)

\* s has the opening quote at i
ParseString(s, i) ==
    LET j == FindFrom(s, "\"", i + 1)
    IN  IF j = 0 THEN NoParse
        ELSE [ok |-> TRUE, v |-> PyStr(SubSeq(s, i + 1, j - 1)), i |-> j + 1]

\* s has a digit at i; a number that begins with 0 ends there
RECURSIVE ParseDigits(_, _, _)
ParseDigits(s, i, n) ==
    IF IsDigit(CharAt(s, i))
    THEN ParseDigits(s, i + 1, 10 * n + DigitValue(CharAt(s, i)))
    ELSE [ok |-> TRUE, v |-> PyInt(n), i |-> i]

ParseNumber(s, i) ==
    IF CharAt(s, i) = "0" THEN [ok |-> TRUE, v |-> PyInt(0), i |-> i + 1]
    ELSE ParseDigits(s, i, 0)

RECURSIVE ParseValue(_, _)
RECURSIVE ParseMembers(_, _, _, _)
RECURSIVE ParseElements(_, _, _, _)

\* the members of an object from i on, after "{" (first) or after ","; of two
\* members with one key the later wins
ParseMembers(s, i, acc, first) ==
    LET k == SkipWhitespace(s, i)
    IN  IF first /\ CharAt(s, k) = "}" THEN [ok |-> TRUE, v |-> PyDict(acc), i |-> k + 1]
        ELSE IF CharAt(s, k) # "\"" THEN NoParse
        ELSE LET key == ParseString(s, k)
                 c == SkipWhitespace(s, key.i)
             IN  IF ~key.ok \/ CharAt(s, c) # ":" THEN NoParse
                 ELSE LET val == ParseValue(s, c + 1)
                          e == SkipWhitespace(s, val.i)
                          upd == [x \in DOMAIN acc \cup {key.v.v} |->
                                     IF x = key.v.v THEN val.v ELSE acc[x]]
                      IN  IF ~val.ok THEN NoParse
                          ELSE IF CharAt(s, e) = "," THEN ParseMembers(s, e + 1, upd, FALSE)
                          ELSE IF CharAt(s, e) = "}"
                          THEN [ok |-> TRUE, v |-> PyDict(upd), i |-> e + 1]
                          ELSE NoParse

\* the elements of an array from i on, after "[" (first) or after ","
ParseElements(s, i, acc, first) ==
    LET k == SkipWhitespace(s, i)
    IN  IF first /\ CharAt(s, k) = "]" THEN [ok |-> TRUE, v |-> PyList(acc), i |-> k + 1]
        ELSE LET val == ParseValue(s, k)
                 e == SkipWhitespace(s, val.i)
             IN  IF ~val.ok THEN NoParse
                 ELSE IF CharAt(s, e) = ","
                 THEN ParseElements(s, e + 1, Append(acc, val.v), FALSE)
                 ELSE IF CharAt(s, e) = "]"
                 THEN [ok |-> TRUE, v |-> PyList(Append(acc, val.v)), i |-> e + 1]
                 ELSE NoParse

ParseValue(s, i) ==
    LET k == SkipWhitespace(s, i)
        c == CharAt(s, k)
    IN  IF c = "{" THEN ParseMembers(s, k + 1, <<>>, TRUE)
        ELSE IF c = "[" THEN ParseElements(s, k + 1, <<>>, TRUE)
        ELSE IF c = "\"" THEN ParseString(s, k)
        ELSE IF IsDigit(c) THEN ParseNumber(s, k)
        ELSE IF SubSeq(s, k, Min2(k + 3, Len(s))) = "true"
        THEN [ok |-> TRUE, v |-> PyBool(TRUE), i |-> k + 4]
        ELSE IF SubSeq(s, k, Min2(k + 4, Len(s))) = "false"
        THEN [ok |-> TRUE, v |-> PyBool(FALSE), i |-> k + 5]
        ELSE IF SubSeq(s, k, Min2(k + 3, Len(s))) = "null"
        THEN [ok |-> TRUE, v |-> PyNone, i |-> k + 4]
        ELSE NoParse

\* json.loads(s): one value and nothing but whitespace after it; ok is FALSE
\* where json.loads raises JSONDecodeError
JsonLoads(s) ==
    LET r == ParseValue(s, 1)
    IN  IF r.ok /\ SkipWhitespace(s, r.i) = Len(s) + 1
        THEN [ok |-> TRUE, v |-> r.v]
        ELSE [ok |-> FALSE, v |-> PyNone]

----------------------------------------------------------------------------
(* fill_pdf_form *)

\* a variant that takes a missing mapping file for an empty mapping
LoadMappingMissingIsEmpty(world, field_mapping) ==
    IF field_mapping.t = "str"
    THEN IF ~Exists(world, field_mapping.v) THEN [ok |-> TRUE, v |-> PyDict(<<>>)]
         ELSE IF field_mapping.v \in world.dirs
                 \/ world.files[field_mapping.v].t # "json"
         THEN [ok |-> FALSE, v |-> PyNone]
         ELSE LET m == JsonLoad(world.files[field_mapping.v].v)
              IN  [ok |-> m.t = "dict", v |-> m]
    ELSE [ok |-> field_mapping.t = "dict", v |-> field_mapping]

\* lines 25-39: the mapping the call works with, or none when the call gives up
\* before it touches the PDF
LoadMapping(world, field_mapping) ==
    IF field_mapping.t = "str"
    THEN IF ~Exists(world, field_mapping.v) THEN [ok |-> FALSE, v |-> PyNone]
         ELSE IF field_mapping.v \in world.dirs
                 \/ world.files[field_mapping.v].t # "json"
         THEN \* open or json.load raises, caught at line 33
              [ok |-> FALSE, v |-> PyNone]
         ELSE LET m == JsonLoad(world.files[field_mapping.v].v)
              IN  [ok |-> m.t = "dict", v |-> m]
    ELSE [ok |-> field_mapping.t = "dict", v |-> field_mapping]

\* pikepdf.Name(name) constructs only from a string that begins with "/" (and
\* has a character after it); from any other it raises ValueError
NameConstructs(name) == Len(name) >= 2 /\ SubSeq(name, 1, 1) = "/"

\* lines 87-106: the writes of a checked checkbox.  The keys of n_dict are Python
\* strings, and a Python string assigned to a pikepdf key is stored as a String
CheckOn(field) ==
    LET others == SelectSeq(field.APN, LAMBDA k : k # "/Off")
    IN  IF others # <<>>
        THEN [ok |-> TRUE,
              field |-> [field EXCEPT !.V = PdfString(others[1]),
                                      !.AS = PdfString(others[1])]]
        ELSE IF NameConstructs("Yes")
        THEN [ok |-> TRUE,
              field |-> [field EXCEPT !.V = PdfName("Yes"), !.AS = PdfName("Yes")]]
        ELSE [ok |-> FALSE, field |-> field]

\* lines 108-110
CheckOff(field) ==
    IF NameConstructs("Off")
    THEN [ok |-> TRUE, field |-> [field EXCEPT !.V = PdfName("Off"), !.AS = PdfName("Off")]]
    ELSE [ok |-> FALSE, field |-> field]

\* a variant that writes a boolean to a text field as JSON spells it
WriteFieldJsonBool(field, field_value) ==
    LET field_type == StrOfObject(Get(field.FT, PdfString("")))
    IN  IF field_type = "/Btn" /\ field_value.t = "bool"
        THEN IF field_value.v THEN CheckOn(field) ELSE CheckOff(field)
        ELSE [ok |-> TRUE,
              field |-> [field EXCEPT !.V =
                  PdfString(IF field_value.t = "bool"
                            THEN (IF field_value.v THEN "true" ELSE "false")
                            ELSE StrOfValue(field_value))]]

\* lines 65-125: the field after the write of field_value; ok is FALSE when the
\* write raised (caught at line 124) and left the field as it was
WriteField(field, field_value) ==
    LET field_type == StrOfObject(Get(field.FT, PdfString("")))
    IN  IF field_type = "/Btn" /\ field_value.t = "bool"
        THEN IF field_value.v THEN CheckOn(field) ELSE CheckOff(field)
        ELSE [ok |-> TRUE, field |-> [field EXCEPT !.V = PdfString(StrOfValue(field_value))]]

\* a variant that writes an empty string to the fields the mapping does not name
FillFieldsClearsUnmapped(fields, mapping) ==
    [i \in 1..Len(fields) |->
        LET field_name == StrOfObject(Get(fields[i].T, PdfString("")))
        IN  IF field_name \in DOMAIN mapping
            THEN WriteField(fields[i], mapping[field_name]).field
            ELSE [fields[i] EXCEPT !.V = PdfString("")]]

\* a variant that gives up the loop at the first write that raises
FillFieldsStopsAtFailure(fields, mapping) ==
    [i \in 1..Len(fields) |->
        LET Name(j) == StrOfObject(Get(fields[j].T, PdfString("")))
            Raised(j) == Name(j) \in DOMAIN mapping
                         /\ ~WriteField(fields[j], mapping[Name(j)]).ok
        IN  IF Name(i) \in DOMAIN mapping /\ ~\E j \in 1..(i - 1) : Raised(j)
            THEN WriteField(fields[i], mapping[Name(i)]).field
            ELSE fields[i]]

\* lines 60-127: the loop over /Fields
FillFields(fields, mapping) ==
    [i \in 1..Len(fields) |->
        LET field_name == StrOfObject(Get(fields[i].T, PdfString("")))
        IN  IF field_name \in DOMAIN mapping
            THEN WriteField(fields[i], mapping[field_name]).field
            ELSE fields[i]]

\* a variant of the handler that reports success
FillCaughtReturnsTrue(world, nopened) ==
    [ret |-> TRUE, world |-> world, opened |-> nopened, closed |-> 0]

\* lines 142-144: the handler of the outer try; the handle, if one was opened,
\* is not closed
FillCaught(world, nopened) ==
    [ret |-> FALSE, world |-> world, opened |-> nopened, closed |-> 0]

\* a variant of pdf.save that writes over the file the PDF was opened from
SaveRaisesNoInputCheck(input_pdf_path, output_pdf_path, save_fails) == save_fails

\* line 135: pdf.save raises when the file cannot be written (save_fails), and
\* when the output is the file the PDF was opened from: the PDF was opened at
\* line 47 without allow_overwriting_input
SaveRaises(input_pdf_path, output_pdf_path, save_fails) ==
    save_fails \/ output_pdf_path = input_pdf_path

\* lines 7-144.  world: the file system before the call; save_fails: whether
\* pdf.save cannot write the output.  The result: the return value, the file
\* system after the call, and the PDF handles opened and closed
FillPdfForm(world, input_pdf_path, field_mapping, output_pdf_path, save_fails) ==
    LET m == LoadMapping(world, field_mapping)
        failed0 == [ret |-> FALSE, world |-> world, opened |-> 0, closed |-> 0]
    IN  IF ~m.ok THEN failed0
        ELSE IF ~Exists(world, input_pdf_path) THEN failed0
        ELSE IF input_pdf_path \in world.dirs
                \/ world.files[input_pdf_path].t # "pdf"
        THEN \* pikepdf.Pdf.open raises
             FillCaught(world, 0)
        ELSE LET pdf == world.files[input_pdf_path].v
                 output_dir == Dirname(output_pdf_path)
                 made == IF output_dir # "" /\ ~Exists(world, output_dir)
                         THEN [world EXCEPT !.dirs = @ \cup {output_dir}]
                         ELSE world
                 filled == [pdf EXCEPT !.fields = FillFields(pdf.fields, m.v.v)]
                 saved == [made EXCEPT !.files =
                              [p \in DOMAIN made.files \cup {output_pdf_path} |->
                                  IF p = output_pdf_path THEN [t |-> "pdf", v |-> filled]
                                  ELSE made.files[p]]]
             IN  IF ~pdf.acroform
                 THEN [ret |-> FALSE, world |-> world, opened |-> 1, closed |-> 1]
                 ELSE IF SaveRaises(input_pdf_path, output_pdf_path, save_fails)
                 THEN \* after os.makedirs
                      FillCaught(made, 1)
                 ELSE [ret |-> TRUE, world |-> saved, opened |-> 1, closed |-> 1]

----------------------------------------------------------------------------
(* acroform_mapping_using_gemini *)

\* lines 41-46: the text of the file at txt_path; ok is FALSE when open or read
\* raises (a directory, bytes that are no UTF-8)
ReadText(world, txt_path) ==
    IF txt_path \in world.dirs \/ world.files[txt_path].t # "text"
    THEN [ok |-> FALSE, v |-> ""]
    ELSE [ok |-> TRUE, v |-> world.files[txt_path].v]

\* a variant that takes only the empty text for empty
IsBlankEmptyOnly(text_content) == text_content = ""

\* line 48: not text_content.strip()
IsBlank(text_content) ==
    \A i \in 1..Len(text_content) : CharAt(text_content, i) \in Whitespace

\* line 57: isinstance(field, dict) and field.get('name')
HasName(field) ==
    field.t = "dict" /\ "name" \in DOMAIN field.v /\ field.v["name"] # ""

\* lines 53-71: field_names
NamedFields(form_fields) ==
    LET named == SelectSeq(form_fields, HasName)
    IN  [i \in 1..Len(named) |-> named[i].v["name"]]

\* response_text[start_idx:end_idx], with Python's positions from 0
Slice(s, start_idx, end_idx) == SubSeq(s, start_idx + 1, end_idx)

\* lines 128-143: the value parsed from the response; ok is FALSE where
\* json.loads raises JSONDecodeError
ResponseMapping(response_text) ==
    LET start_idx == FindFrom(response_text, "{", 1) - 1
        end_idx == FindBack(response_text, "}", Len(response_text)) - 1 + 1
    IN  IF start_idx # -1 /\ end_idx # 0
        THEN JsonLoads(Slice(response_text, start_idx, end_idx))
        ELSE JsonLoads(response_text)

\* open(path, 'w') succeeds: the path is no directory, its directory exists and
\* the file, if there is one, is not read-only
CanWrite(world, path) ==
    /\ path \notin world.dirs
    /\ path \notin world.readonly
    /\ Dirname(path) = "" \/ Dirname(path) \in world.dirs

\* a variant that adds the mapping to the one the file holds
SaveMappingMerges(world, output_json_path, field_mapping) ==
    IF CanWrite(world, output_json_path)
    THEN LET old == IF output_json_path \in DOMAIN world.files
                       /\ world.files[output_json_path].t = "json"
                       /\ world.files[output_json_path].v.t = "object"
                    THEN world.files[output_json_path].v.v ELSE <<>>
             new == JsonDump(PyDict(field_mapping)).v
         IN  [world EXCEPT !.files =
                 [p \in DOMAIN world.files \cup {output_json_path} |->
                     IF p = output_json_path
                     THEN [t |-> "json",
                           v |-> [t |-> "object",
                                  v |-> [k \in DOMAIN old \cup DOMAIN new |->
                                            IF k \in DOMAIN new THEN new[k] ELSE old[k]]]]
                     ELSE world.files[p]]]
    ELSE world

\* lines 150-155: the file system after the mapping is saved; when the file
\* cannot be opened for writing the handler at line 154 prints a warning
SaveMapping(world, output_json_path, field_mapping) ==
    IF CanWrite(world, output_json_path)
    THEN [world EXCEPT !.files =
             [p \in DOMAIN world.files \cup {output_json_path} |->
                 IF p = output_json_path
                 THEN [t |-> "json", v |-> JsonDump(PyDict(field_mapping))]
                 ELSE world.files[p]]]
    ELSE world

EmptyMapping == <<>>

\* a variant of the handler that raises what it caught
MappingCaughtReraise(world, napi) ==
    [kind |-> "raise", ret |-> "Exception", world |-> world, api |-> napi]

\* lines 166-168: the handler of the outer try
MappingCaught(world, napi) ==
    [kind |-> "return", ret |-> EmptyMapping, world |-> world, api |-> napi]

\* lines 8-168.  world: the file system before the call; outcome: what
\* client.models.generate_content does when called: it raises, or it gives a
\* response whose text is a string or None.  The result: the returned mapping,
\* the file system after the call, and the number of calls of the API
MappingUsingGemini(world, form_fields, txt_path, output_json_path, outcome) ==
    LET empty0 == [kind |-> "return", ret |-> EmptyMapping, world |-> world, api |-> 0]
        empty1 == [kind |-> "return", ret |-> EmptyMapping, world |-> world, api |-> 1]
    IN  IF form_fields = <<>> THEN empty0
        ELSE IF ~Exists(world, txt_path) THEN empty0
        ELSE IF ~ReadText(world, txt_path).ok THEN empty0
        ELSE IF IsBlank(ReadText(world, txt_path).v) THEN empty0
        ELSE IF NamedFields(form_fields) = <<>> THEN empty0
        ELSE IF outcome.kind = "raises" THEN MappingCaught(world, 1)
        ELSE IF outcome.kind = "none"
        THEN \* response_text.find raises AttributeError
             MappingCaught(world, 1)
        ELSE LET field_mapping == ResponseMapping(outcome.text)
             IN  IF ~field_mapping.ok THEN empty1
                 ELSE IF field_mapping.v.t # "dict" THEN empty1
                 ELSE [kind |-> "return", ret |-> field_mapping.v.v,
                       world |-> SaveMapping(world, output_json_path, field_mapping.v.v),
                       api |-> 1]

----------------------------------------------------------------------------
(* add_llm_field_descriptions *)

\* s.strip()
RECURSIVE Strip(_)
Strip(s) ==
    IF s = "" THEN s
    ELSE IF CharAt(s, 1) \in Whitespace THEN Strip(SubSeq(s, 2, Len(s)))
    ELSE IF CharAt(s, Len(s)) \in Whitespace THEN Strip(SubSeq(s, 1, Len(s) - 1))
    ELSE s

\* add_understanding.py lines 6-28: how many handles the text extraction opens
\* and closes; fitz.open raises on a file it cannot read
FullPdfText(doc_openable) ==
    IF doc_openable THEN [opened |-> 1, closed |-> 1] ELSE [opened |-> 0, closed |-> 0]

\* lines 70-78: a dictionary whose name is a string that is not blank
HasValidName(field) ==
    /\ field.t = "dict"
    /\ "name" \in DOMAIN field.v
    /\ ~IsBlank(field.v["name"])

\* lines 69-87: valid_field_names_for_mapping
ValidFieldNames(form_fields) ==
    LET valid == SelectSeq(form_fields, HasValidName)
    IN  {valid[i].v["name"] : i \in 1..Len(valid)}

\* lines 146-160: one field of the second loop
WithUnderstanding(field_dict, valid, descriptions) ==
    IF "name" \notin DOMAIN field_dict.v \/ field_dict.v["name"] \notin valid
    THEN field_dict
    ELSE IF field_dict.v["name"] \in DOMAIN descriptions
            /\ descriptions[field_dict.v["name"]].t = "str"
    THEN PyDict([k \in DOMAIN field_dict.v \cup {"understanding"} |->
                    IF k = "understanding"
                    THEN Strip(descriptions[field_dict.v["name"]].v)
                    ELSE field_dict.v[k]])
    ELSE field_dict

\* lines 145-160: the list after the second loop; ok is FALSE when the loop
\* meets an item without .get, which raises AttributeError after the items
\* before it were updated
RECURSIVE UpdateFields(_, _, _, _)
UpdateFields(form_fields, i, valid, descriptions) ==
    IF i > Len(form_fields) THEN [ok |-> TRUE, fields |-> form_fields]
    ELSE IF form_fields[i].t # "dict" THEN [ok |-> FALSE, fields |-> form_fields]
    ELSE UpdateFields([form_fields EXCEPT ![i] = WithUnderstanding(@, valid, descriptions)],
                      i + 1, valid, descriptions)

\* a variant of the handlers that calls the API once more
DescriptionsCaughtRetries(form_fields, napi, text) ==
    [kind |-> "return", fields |-> form_fields, api |-> napi + 1,
     opened |-> text.opened, closed |-> text.closed]

\* lines 173-179: the three handlers print
DescriptionsCaught(form_fields, napi, text) ==
    [kind |-> "return", fields |-> form_fields, api |-> napi,
     opened |-> text.opened, closed |-> text.closed]

\* lines 30-179.  form_fields: the argument, a Python value; has_client: client
\* is given; outcome: what client.chat.completions.create does when called.  The
\* result: the list as the call leaves it, and the number of calls of the API
AddLlmFieldDescriptions(form_fields, doc_openable, has_client, outcome) ==
    LET early == [kind |-> "return", fields |-> form_fields, api |-> 0,
                  opened |-> 0, closed |-> 0]
        text == FullPdfText(doc_openable)
    IN  IF form_fields.t # "list" THEN early
        ELSE IF form_fields.v = <<>> THEN early
        ELSE IF ~has_client THEN early
        ELSE IF ValidFieldNames(form_fields.v) = {}
        THEN [early EXCEPT !.opened = text.opened, !.closed = text.closed]
        ELSE IF outcome.kind = "raises" THEN DescriptionsCaught(form_fields, 1, text)
        ELSE IF outcome.kind = "none" \/ outcome.text = ""
        THEN \* lines 130-132
             [kind |-> "return", fields |-> form_fields, api |-> 1,
              opened |-> text.opened, closed |-> text.closed]
        ELSE LET llm_generated_descriptions == JsonLoads(outcome.text)
             IN  IF ~llm_generated_descriptions.ok
                 THEN DescriptionsCaught(form_fields, 1, text)
                 ELSE IF llm_generated_descriptions.v.t # "dict"
                 THEN [kind |-> "return", fields |-> form_fields, api |-> 1,
                       opened |-> text.opened, closed |-> text.closed]
                 ELSE LET u == UpdateFields(form_fields.v, 1,
                                            ValidFieldNames(form_fields.v),
                                            llm_generated_descriptions.v.v)
                      IN  IF u.ok
                          THEN [kind |-> "return", fields |-> PyList(u.fields), api |-> 1,
                                opened |-> text.opened, closed |-> text.closed]
                          ELSE DescriptionsCaught(PyList(u.fields), 1, text)

----------------------------------------------------------------------------
(* auto_fill_pdf_workflow and the script tests/acroform/auto_fill.py *)

\* acroform_filler.py lines 183-188: the path of the filled PDF, or ""
WorkflowReturn(success, output_pdf_path) ==
    [ret |-> IF success.ret THEN output_pdf_path ELSE "", world |-> success.world]

\* acroform_filler.py lines 146-188, for a call that names the output file
AutoFillPdfWorkflow(world, input_pdf_path, field_mapping_json_path, output_dir, output_filename, save_fails) ==
    WorkflowReturn(FillPdfForm(world, input_pdf_path, PyStr(field_mapping_json_path),
                               output_dir \o "/" \o output_filename, save_fails),
                   output_dir \o "/" \o output_filename)

\* extract_form_fields on the PDF at pdf_path, as the Value Mapper reads its
\* result: the records with their names
CatalogOf(world, pdf_path) ==
    IF pdf_path \in world.dirs \/ world.files[pdf_path].t # "pdf"
    THEN [kind |-> "raise", val |-> "PdfError"]
    ELSE [kind |-> "return",
          val |-> IF ~world.files[pdf_path].v.acroform THEN <<>>
                  ELSE [i \in 1..Len(world.files[pdf_path].v.fields) |->
                           PyDict([name |->
                               StrOfObject(Get(world.files[pdf_path].v.fields[i].T,
                                               PdfString("")))])]]

\* auto_fill.py lines 12, 24, 29: the script ends in an exception
ScriptRaises(name, world) ==
    [kind |-> "raise", ret |-> name, world |-> world, api |-> 0]

\* auto_fill.py lines 37-39
MakeOutputDir(world, output_dir) ==
    IF ~Exists(world, output_dir) THEN [world EXCEPT !.dirs = @ \cup {output_dir}]
    ELSE world

\* auto_fill.py lines 8-55: the script up to the return of the Value Mapper.
\* has_api_key: GEMINI_API_KEY is set; outcome: what the API does when called
ScriptMapping(world, has_api_key, outcome) ==
    LET pdf_path == "input/acroform.pdf"
        txt_path == "input/acroform.txt"
    IN  IF ~Exists(world, pdf_path) THEN ScriptRaises("FileNotFoundError", world)
        ELSE IF CatalogOf(world, pdf_path).kind = "raise"
        THEN ScriptRaises("PdfError", world)
        ELSE IF ~Exists(world, txt_path) THEN ScriptRaises("FileNotFoundError", world)
        ELSE IF ~has_api_key THEN ScriptRaises("ValueError", world)
        ELSE MappingUsingGemini(MakeOutputDir(world, "output"),
                                CatalogOf(world, pdf_path).val, txt_path,
                                "output/auto_fill_results.json", outcome)

\* auto_fill.py lines 57-77: the fill stage, given what the script has in
\* mapping; save_fails: pdf.save cannot write.  In the result, applied is what
\* the Form Writer loaded as its mapping
FillStage(mapping, save_fails) ==
    IF mapping.kind = "raise"
    THEN [kind |-> "raise", val |-> mapping.ret, world |-> mapping.world]
    ELSE IF mapping.ret # <<>>
    THEN LET filled_pdf_path ==
                 AutoFillPdfWorkflow(mapping.world, "input/acroform.pdf",
                                     "output/auto_fill_results.json", "output",
                                     "acroform_filled.pdf", save_fails)
         IN  [kind |-> "return",
              val |-> [mapping |-> mapping.ret, fill_ran |-> TRUE,
                       applied |-> LoadMapping(mapping.world,
                                               PyStr("output/auto_fill_results.json")),
                       filled_pdf_path |-> filled_pdf_path.ret],
              world |-> filled_pdf_path.world]
    ELSE [kind |-> "return",
          val |-> [mapping |-> mapping.ret, fill_ran |-> FALSE,
                   applied |-> [ok |-> FALSE, v |-> PyNone], filled_pdf_path |-> ""],
          world |-> mapping.world]

----------------------------------------------------------------------------
(* Inputs of get_contextual_text_for_field *)

\* page.get_text("words") tuples (x0, y0, x1, y1, word, block_no, line_no, word_no),
\* top-origin, in reading order; arity is the length of the tuple
Word(x0, y0, x1, y1, text, id) ==
    [x0 |-> x0, y0 |-> y0, x1 |-> x1, y1 |-> y1, text |-> text, id |-> id, arity |-> 8]

WordPool ==
    << Word(30, 75, 65, 85, "Name:", <<0, 0, 0>>),      \* left of the field
       Word(50, 55, 95, 70, "Your", <<0, 0, 1>>),       \* left, and above
       Word(60, 55, 95, 72, "Full", <<0, 0, 2>>),       \* left, and above; ties with "Your"
       Word(25, 58, 55, 69, "Title", <<0, 1, 0>>),      \* left, and above, ranked last
       Word(110, 60, 150, 70, "Label", <<1, 0, 0>>),    \* above
       Word(160, 50, 190, 65, "Here", <<1, 0, 1>>),     \* above
       Word(120, 48, 140, 58, "Top", <<1, 1, 0>>),      \* above
       Word(205, 40, 240, 50, "Note", <<1, 1, 1>>),     \* above, ranked last
       Word(210, 100, 250, 110, "Below", <<2, 0, 0>>),  \* near, neither left nor above
       Word(400, 500, 450, 510, "Far", <<3, 0, 0>>),    \* nowhere near
       [x0 |-> 70, y0 |-> 78, x1 |-> 95, y1 |-> 88, text |-> "Bad", id |-> <<4, 0, 0>>,
        arity |-> 7] >>                                 \* a malformed tuple

\* the members of pool whose index is in S, in the order of pool
RECURSIVE Pick(_, _)
Pick(pool, S) ==
    IF pool = <<>> THEN <<>>
    ELSE Pick(SubSeq(pool, 1, Len(pool) - 1), S)
         \o (IF Len(pool) \in S THEN <<pool[Len(pool)]>> ELSE <<>>)

WordLists(n) ==
    {Pick(WordPool, S) : S \in {T \in SUBSET (1..Len(WordPool)) : Cardinality(T) <= n}}

PageHeights == {792}

Docs(n) ==
    {[openable |-> FALSE, pages |-> <<>>]} \cup
    {[openable |-> TRUE, pages |-> <<[height |-> h, words |-> ws]>>] :
        h \in PageHeights, ws \in WordLists(n)}

\* field rectangles (x0, yLower, x1, yUpper), bottom-origin
Rects == {<<100, 700, 200, 715>>, <<>>, <<100, 700, 200>>}

PageIndexes == {-1, 0, 1}

ContextCalls(nwords) ==
    {[op |-> "get_contextual_text_for_field", doc |-> d, page_index |-> p,
      field_rect_coords |-> r] : d \in Docs(nwords), p \in PageIndexes, r \in Rects}

----------------------------------------------------------------------------
(* Inputs of extract_form_fields *)

Field(T, FT, Rect, Page, Opt) == [T |-> T, FT |-> FT, Rect |-> Rect, Page |-> Page, Opt |-> Opt]

RectArray(a, b, c, d) == PdfArray(<<PdfInteger(a), PdfInteger(b), PdfInteger(c), PdfInteger(d)>>)

FieldPool ==
    { Field(PdfString("Name"), PdfName("/Tx"), RectArray(100, 700, 200, 715), Absent, Absent),
      Field(PdfString("Color"), PdfName("/Ch"), Absent, Absent,
            PdfArray(<<PdfArray(<<PdfString("export1"), PdfString("Display One")>>),
                       PdfString("OptA"),
                       PdfArray(<<PdfInteger(1), PdfInteger(2)>>)>>)),
      Field(PdfString("Agree"), PdfName("/Btn"),
            PdfArray(<<PdfInteger(100), PdfInteger(700), PdfInteger(200)>>), Absent, Absent),
      Field(PdfString("Bad"), PdfName("/Tx"),
            PdfArray(<<PdfName("/a"), PdfInteger(700), PdfInteger(200), PdfInteger(715)>>),
            Absent, Absent),
      Field(PdfString("Pg"), PdfName("/Tx"), RectArray(100, 700, 200, 715), PdfName("/P"), Absent),
      Field(PdfString("Neg"), PdfName("/Tx"), RectArray(100, 700, 200, 715), PdfInteger(-1), Absent),
      Field(PdfString("Next"), PdfName("/Tx"), RectArray(100, 700, 200, 715), PdfInteger(1), Absent),
      Field(Absent, Absent, Absent, PdfName("/P"), Absent) }

RECURSIVE SeqsUpTo(_, _)
SeqsUpTo(S, n) ==
    IF n = 0 THEN {<<>>}
    ELSE LET shorter == SeqsUpTo(S, n - 1)
         IN  shorter \cup {Append(q, x) : q \in shorter, x \in S}

ExtractCalls(nfields, nwords) ==
    {[op |-> "extract_form_fields",
      pdf |-> [openable |-> FALSE, acroform |-> FALSE, fields |-> <<>>,
               doc |-> [openable |-> FALSE, pages |-> <<>>]]]} \cup
    {[op |-> "extract_form_fields",
      pdf |-> [openable |-> TRUE, acroform |-> FALSE, fields |-> <<>>, doc |-> d]] :
        d \in Docs(0)} \cup
    {[op |-> "extract_form_fields",
      pdf |-> [openable |-> TRUE, acroform |-> TRUE, fields |-> fl, doc |-> d]] :
        fl \in SeqsUpTo(FieldPool, nfields), d \in Docs(nwords)}

----------------------------------------------------------------------------
(* Inputs of get_field_options *)

\* items of /Opt: strings, pairs (of strings, of a string and a number, of
\* numbers, of names), a name, and items the function has no case for
OptionPool ==
    { PdfString("OptA"),
      PdfString("OptB"),
      PdfArray(<<PdfString("export1"), PdfString("Display One")>>),
      PdfArray(<<PdfString("export2"), PdfInteger(2)>>),
      PdfArray(<<PdfInteger(1), PdfInteger(2)>>),
      PdfArray(<<PdfName("/A"), PdfName("/B")>>),
      PdfName("/Choice"),
      PdfInteger(7),
      PdfArray(<<PdfString("a"), PdfString("b"), PdfString("c")>>) }

OptionCalls(noptions) ==
    {[op |-> "get_field_options",
      field_obj |-> Field(PdfString("Color"), PdfName("/Ch"), Absent, Absent, o)] :
        o \in {Absent, PdfString("OptA")}
              \cup {PdfArray(q) : q \in SeqsUpTo(OptionPool, noptions)}}

----------------------------------------------------------------------------
(* Inputs of the Y conversion *)

Floats(n) == {x \in 0..n : IsFloat(x)}

FlipCalls(n) ==
    {[op |-> "flip_y", h |-> h, y |-> y] : h \in Floats(n), y \in Floats(n)}

----------------------------------------------------------------------------
(* Inputs of fill_pdf_form *)

FormField(T, FT, V, AS, APN) == [T |-> T, FT |-> FT, V |-> V, AS |-> AS, APN |-> APN]

FormFieldPool ==
    { FormField(PdfString("Name"), PdfName("/Tx"), Absent, Absent, <<>>),
      FormField(PdfString("Agree"), PdfName("/Btn"), PdfName("/Off"), PdfName("/Off"),
                <<"/Off", "/On">>),
      FormField(PdfString("Agree"), PdfName("/Btn"), Absent, Absent, <<>>),
      FormField(PdfString("Color"), PdfName("/Ch"), PdfString("Red"), Absent, <<>>),
      FormField(PdfString("Name"), Absent, PdfString("Bob"), Absent, <<>>) }

MapKeys == {"Name", "Agree", "Color"}
MapValues == {PyStr("Alice"), PyBool(TRUE), PyBool(FALSE)}

Dicts(n) ==
    UNION {[K -> MapValues] : K \in {T \in SUBSET MapKeys : Cardinality(T) <= n}}

\* the JSON text of a mapping
JsonOfValue(x) ==
    IF x.t = "bool" THEN [t |-> "boolean", v |-> x.v] ELSE [t |-> "string", v |-> x.v]

JsonObject(d) == [t |-> "object", v |-> [k \in DOMAIN d |-> JsonOfValue(d[k])]]

Pdfs(n) ==
    {[acroform |-> FALSE, fields |-> <<>>]} \cup
    {[acroform |-> TRUE, fields |-> fl] : fl \in SeqsUpTo(FormFieldPool, n)}

\* what is at "in.pdf": nothing, a file that is no PDF, or a PDF
InputFiles(n) ==
    {<<>>} \cup {[p \in {"in.pdf"} |-> [t |-> "text", v |-> "not a pdf"]]} \cup
    {[p \in {"in.pdf"} |-> [t |-> "pdf", v |-> pdf]] : pdf \in Pdfs(n)}

\* what is at "map.json": nothing, a file that is no JSON, a JSON array, a JSON object
MappingFiles ==
    {<<>>} \cup
    {[p \in {"map.json"} |-> c] :
        c \in {[t |-> "text", v |-> "{not json"],
               [t |-> "json", v |-> [t |-> "array", v |-> <<JsonObject(<<>>)>>]]}
              \cup {[t |-> "json", v |-> JsonObject(d)] : d \in Dicts(1)}}

OutDirs == {{}, {"out"}}

\* a world and a call in it: the mapping is given as a value, or as the path of
\* a file; the output is a new file, or the input file itself
FillCalls(nfields, nkeys) ==
    {[op |-> "fill_pdf_form", world |-> [dirs |-> ds, files |-> inf, readonly |-> {}],
      input_pdf_path |-> "in.pdf", field_mapping |-> fm,
      output_pdf_path |-> "out/filled.pdf", save_fails |-> sf] :
        ds \in OutDirs, inf \in InputFiles(nfields),
        fm \in {PyDict(d) : d \in Dicts(nkeys)} \cup {PyList(<<>>), PyNone},
        sf \in BOOLEAN} \cup
    {[op |-> "fill_pdf_form", world |-> [dirs |-> ds, files |-> inf @@ mf, readonly |-> {}],
      input_pdf_path |-> "in.pdf", field_mapping |-> PyStr("map.json"),
      output_pdf_path |-> "out/filled.pdf", save_fails |-> sf] :
        ds \in OutDirs, inf \in InputFiles(nfields), mf \in MappingFiles,
        sf \in BOOLEAN} \cup
    {[op |-> "fill_pdf_form", world |-> [dirs |-> {}, files |-> inf, readonly |-> {}],
      input_pdf_path |-> "in.pdf", field_mapping |-> PyDict(d),
      output_pdf_path |-> "in.pdf", save_fails |-> FALSE] :
        inf \in InputFiles(nfields), d \in Dicts(1)}

----------------------------------------------------------------------------
(* Inputs of acroform_mapping_using_gemini *)

\* form_fields: catalog records with a name, with an empty name, without one,
\* and an entry that is no dictionary
FormFieldLists ==
    { <<>>,
      <<PyDict([name |-> "Name"])>>,
      <<PyDict([name |-> ""]), PyDict([type |-> "/Tx"]), PyStr("Name")>>,
      <<PyDict([name |-> ""]), PyDict([name |-> "Agree"])>> }

\* what is at "info.txt": nothing, a text, a blank text, an empty text, bytes
\* that are no UTF-8
TextFiles ==
    {<<>>} \cup
    {[p \in {"info.txt"} |-> c] :
        c \in {[t |-> "text", v |-> "My name is Alice."],
               [t |-> "text", v |-> " \n\t"],
               [t |-> "text", v |-> ""],
               [t |-> "binary", v |-> "ff fe"]}}

\* the texts of the responses
Responses ==
    { "{\"Name\": \"Alice\"}",
      "{\"Name\": \"Alice\", \"Agree\": true}",
      "{}",
      "Here is the mapping:\n{\"Name\": \"Alice\"}\nDone.",
      "{\"Name\": \"Alice\"",
      "{\"Name\": \"Alice\"} {\"Agree\": true}",
      "[{\"Name\": \"Alice\"}]",
      "[1, {\"Name\": \"Alice\"}, \"x\"]",
      "[{\"Name\": \"Alice\"}, {\"Agree\": true}]",
      "[\"Alice\"]",
      "\"Alice\"",
      "\"}{\"",
      "42",
      "null",
      "" }

ApiOutcomes ==
    {[kind |-> "raises", text |-> ""], [kind |-> "none", text |-> ""]} \cup
    {[kind |-> "text", text |-> t] : t \in Responses}

\* the mapping an earlier run left at the output path
StaleMapping == JsonObject([Old |-> PyStr("Bob")])

\* the output directory is missing, is there, or holds the file of an earlier
\* run, which may be read-only; the path of the text file may be a directory
MappingWorlds ==
    {[dirs |-> ds, files |-> tf @@ of, readonly |-> {}] :
        ds \in {{"out"}}, tf \in TextFiles,
        of \in {<<>>, [p \in {"out/mapping.json"} |-> [t |-> "json", v |-> StaleMapping]]}}
    \cup {[dirs |-> {}, files |-> tf, readonly |-> {}] : tf \in TextFiles}
    \cup {[dirs |-> {"out", "info.txt"}, files |-> <<>>, readonly |-> {}]}
    \cup {[dirs |-> {"out"},
           files |-> [p \in {"info.txt"} |-> [t |-> "text", v |-> "My name is Alice."]]
                     @@ [p \in {"out/mapping.json"} |-> [t |-> "json", v |-> StaleMapping]],
           readonly |-> {"out/mapping.json"}]}

MappingCalls ==
    {[op |-> "acroform_mapping_using_gemini", world |-> w, form_fields |-> ff,
      txt_path |-> "info.txt", output_json_path |-> "out/mapping.json",
      outcome |-> o] :
        w \in MappingWorlds, ff \in FormFieldLists, o \in ApiOutcomes}

----------------------------------------------------------------------------
(* Inputs of add_llm_field_descriptions *)

\* form_fields: no list, an empty list, records with a name, with a blank name,
\* and an item that is no dictionary between two records
DescriptionFieldLists ==
    { PyNone,
      PyList(<<>>),
      PyList(<<PyDict([name |-> "Name"])>>),
      PyList(<<PyDict([name |-> " "]), PyDict([type |-> "/Tx"])>>),
      PyList(<<PyDict([name |-> "Name"]), PyDict([name |-> "Agree"])>>),
      PyList(<<PyDict([name |-> "Name"]), PyStr("Agree"), PyDict([name |-> "Agree"])>>) }

DescriptionResponses ==
    { "{\"Name\": \" The full name. \"}",
      "{\"Name\": \"The full name.\", \"Agree\": \"Consent.\"}",
      "{\"Name\": 42}",
      "{}",
      "[\"The full name.\"]",
      "{\"Name\": \"The full name.\"",
      "" }

DescriptionOutcomes ==
    {[kind |-> "raises", text |-> ""], [kind |-> "none", text |-> ""]} \cup
    {[kind |-> "text", text |-> t] : t \in DescriptionResponses}

DescriptionCalls ==
    {[op |-> "add_llm_field_descriptions", form_fields |-> ff, doc_openable |-> d,
      has_client |-> c, outcome |-> o] :
        ff \in DescriptionFieldLists, d \in BOOLEAN, c \in BOOLEAN,
        o \in DescriptionOutcomes}

----------------------------------------------------------------------------
(* Inputs of the script auto_fill.py *)

\* the mapping that an earlier run of the script left in its JSON file
EarlierMapping == JsonObject([Name |-> PyStr("Bob")])

\* what the API does in a run: it raises, it gives a mapping, an empty mapping,
\* or a text without JSON
ScriptOutcomes ==
    {o \in ApiOutcomes :
        \/ o.kind = "raises"
        \/ o.kind = "text" /\ o.text \in {"{\"Name\": \"Alice\"}", "{}", "\"Alice\""}}

\* the input directory with or without the form and the text; the output
\* directory missing, empty, or with the JSON file of an earlier run, which may
\* be read-only
ScriptWorlds(nfields) ==
    LET forms == {<<>>, [p \in {"input/acroform.pdf"} |-> [t |-> "text", v |-> "not a pdf"]]}
                 \cup {[p \in {"input/acroform.pdf"} |-> [t |-> "pdf", v |-> pdf]] :
                          pdf \in Pdfs(nfields)}
        texts == {<<>>, [p \in {"input/acroform.txt"} |->
                            [t |-> "text", v |-> "My name is Alice."]]}
        earlier == [p \in {"output/auto_fill_results.json"} |->
                       [t |-> "json", v |-> EarlierMapping]]
    IN  {[dirs |-> {"input"}, files |-> f @@ t, readonly |-> {}] :
            f \in forms, t \in texts}
        \cup {[dirs |-> {"input", "output"}, files |-> f @@ t @@ e, readonly |-> {}] :
                 f \in forms, t \in texts, e \in {<<>>, earlier}}
        \cup {[dirs |-> {"input", "output"}, files |-> f @@ t @@ earlier,
               readonly |-> {"output/auto_fill_results.json"}] :
                 f \in forms, t \in texts}

ScriptCalls(nfields) ==
    {[op |-> "auto_fill", world |-> w, has_api_key |-> k, outcome |-> o, save_fails |-> sf] :
        w \in ScriptWorlds(nfields), k \in BOOLEAN, o \in ScriptOutcomes, sf \in BOOLEAN}

----------------------------------------------------------------------------
(* The state machine: an invocation is drawn, then runs to its end *)

NoRet == [kind |-> "none", val |-> <<>>]
NoFs == [dirs |-> {}, files |-> <<>>, readonly |-> {}]

Init ==
    /\ pc = "call"
    /\ \/ call \in ContextCalls(MaxWords)
       \/ call \in ExtractCalls(MaxFields, MaxCatalogWords)
       \/ call \in FillCalls(MaxFields, MaxKeys)
       \/ call \in MappingCalls
       \/ call \in OptionCalls(MaxOptions)
       \/ call \in FlipCalls(MaxCoordinate)
       \/ call \in ScriptCalls(MaxFields)
       \/ call \in DescriptionCalls
    /\ ret = NoRet
    /\ groups = NoGroups
    /\ opened = 0
    /\ closed = 0
    /\ fs = IF call.op \in {"fill_pdf_form", "acroform_mapping_using_gemini", "auto_fill"}
            THEN call.world ELSE NoFs
    /\ api = 0

GetContextualTextForField ==
    /\ pc = "call"
    /\ call.op = "get_contextual_text_for_field"
    /\ LET r == GetContextualText(call.doc, call.page_index, call.field_rect_coords)
       IN  /\ ret' = [kind |-> r.kind, val |-> r.val]
           /\ groups' = r.groups
           /\ opened' = r.opened
           /\ closed' = r.closed
    /\ pc' = "done"
    /\ UNCHANGED <<call, fs, api>>

ExtractFormFields ==
    /\ pc = "call"
    /\ call.op = "extract_form_fields"
    /\ LET r == ExtractFields(call.pdf)
       IN  /\ ret' = [kind |-> r.kind, val |-> r.val]
           /\ opened' = r.opened
           /\ closed' = r.closed
    /\ pc' = "done"
    /\ UNCHANGED <<call, groups, fs, api>>

FillPdfFormCall ==
    /\ pc = "call"
    /\ call.op = "fill_pdf_form"
    /\ LET r == FillPdfForm(fs, call.input_pdf_path, call.field_mapping,
                            call.output_pdf_path, call.save_fails)
       IN  /\ ret' = [kind |-> "return", val |-> r.ret]
           /\ fs' = r.world
           /\ opened' = r.opened
           /\ closed' = r.closed
    /\ pc' = "done"
    /\ UNCHANGED <<call, groups, api>>

AcroformMappingUsingGemini ==
    /\ pc = "call"
    /\ call.op = "acroform_mapping_using_gemini"
    /\ LET r == MappingUsingGemini(fs, call.form_fields, call.txt_path,
                                   call.output_json_path, call.outcome)
       IN  /\ ret' = [kind |-> r.kind, val |-> r.ret]
           /\ fs' = r.world
           /\ api' = r.api
    /\ pc' = "done"
    /\ UNCHANGED <<call, groups, opened, closed>>

GetFieldOptionsCall ==
    /\ pc = "call"
    /\ call.op = "get_field_options"
    /\ ret' = [kind |-> "return", val |-> GetFieldOptions(call.field_obj)]
    /\ pc' = "done"
    /\ UNCHANGED <<call, groups, opened, closed, fs, api>>

\* the list is changed in place: the returned value stands for it
AddLlmFieldDescriptionsCall ==
    /\ pc = "call"
    /\ call.op = "add_llm_field_descriptions"
    /\ LET r == AddLlmFieldDescriptions(call.form_fields, call.doc_openable,
                                        call.has_client, call.outcome)
       IN  /\ ret' = [kind |-> r.kind, val |-> r.fields]
           /\ api' = r.api
           /\ opened' = r.opened
           /\ closed' = r.closed
    /\ pc' = "done"
    /\ UNCHANGED <<call, groups, fs>>

\* a run of the script auto_fill.py, from its first line to its last; the PDF
\* handles are followed in the calls of extract_form_fields and fill_pdf_form
AutoFill ==
    /\ pc = "call"
    /\ call.op = "auto_fill"
    /\ \E mapping \in {ScriptMapping(fs, call.has_api_key, call.outcome)} :
          \E r \in {FillStage(mapping, call.save_fails)} :
              /\ ret' = [kind |-> r.kind, val |-> r.val]
              /\ fs' = r.world
              /\ api' = mapping.api
    /\ pc' = "done"
    /\ UNCHANGED <<call, groups, opened, closed>>

\* the conversion, and the conversion of its result
FlipYTwice ==
    /\ pc = "call"
    /\ call.op = "flip_y"
    /\ ret' = [kind |-> "return",
               val |-> [once |-> FlipY(call.h, call.y),
                        twice |-> FlipY(call.h, FlipY(call.h, call.y))]]
    /\ pc' = "done"
    /\ UNCHANGED <<call, groups, opened, closed, fs, api>>

Next ==
    \/ FlipYTwice
    \/ GetFieldOptionsCall
    \/ GetContextualTextForField
    \/ ExtractFormFields
    \/ FillPdfFormCall
    \/ AcroformMappingUsingGemini
    \/ AutoFill
    \/ AddLlmFieldDescriptionsCall

Spec == Init /\ [][Next]_vars

----------------------------------------------------------------------------
(* Properties *)

Done(op) == pc = "done" /\ call.op = op

DoneContext == Done("get_contextual_text_for_field")

\* the page the context call reads, when it reads one
ReadsPage ==
    /\ call.page_index >= 0
    /\ Len(call.field_rect_coords) = 4
    /\ call.doc.openable
    /\ call.page_index < Len(call.doc.pages)

PageOf(c) == c.doc.pages[c.page_index + 1]

WellFormed(words) == \A i \in 1..Len(words) : words[i].arity = 8

\* C1: no word is in more than one of the three groups: a word of the Left group
\* is in neither the Above nor the Closest group, and a word of the Above group
\* is not in the Closest group
C1_GroupsDisjoint ==
    DoneContext =>
        /\ IdsOf(groups.left) \cap IdsOf(groups.above) = {}
        /\ IdsOf(groups.left) \cap IdsOf(groups.closest) = {}
        /\ IdsOf(groups.above) \cap IdsOf(groups.closest) = {}

\* a word taken by the left pass also passes the above test and the distance
\* test, a word taken by the above pass also passes the distance test
C1_Witness ==
    /\ DoneContext
    /\ ReadsPage
    /\ LET page == PageOf(call)
           rect == call.field_rect_coords
       IN  /\ \E i \in 1..Len(page.words) :
                /\ page.words[i].id \in IdsOf(groups.left)
                /\ IsAbove(page.words[i], rect, page.height)
                /\ IsClose(page.words[i], rect, page.height)
           /\ \E i \in 1..Len(page.words) :
                /\ page.words[i].id \in IdsOf(groups.above)
                /\ IsClose(page.words[i], rect, page.height)
           /\ groups.closest # <<>>

\* C2: every document handle an operation opened is closed when it ends
C2_HandlesClosed ==
    pc = "done" => closed = opened

\* C3: get_contextual_text_for_field ends by returning, never by raising, and a
\* failure after the validation (a document that does not open, a malformed word
\* tuple) gives a string that starts with the error prefix
C3_InternalFailure ==
    /\ call.page_index >= 0
    /\ Len(call.field_rect_coords) = 4
    /\ \/ ~call.doc.openable
       \/ /\ call.page_index < Len(call.doc.pages)
          /\ ~WellFormed(PageOf(call).words)

C3_NeverRaises ==
    DoneContext =>
        /\ ret.kind = "return"
        /\ C3_InternalFailure => StartsWith(ret.val, ErrorPrefix)

C3_Witness ==
    /\ DoneContext
    /\ ReadsPage
    /\ ~WellFormed(PageOf(call).words)
    /\ ret.kind = "return"
    /\ StartsWith(ret.val, ErrorPrefix)

\* C4: extract_form_fields returns a catalog for every PDF it can open, whatever
\* the content of the fields
C4_CatalogCompletes ==
    (Done("extract_form_fields") /\ call.pdf.openable) => ret.kind = "return"

\* C5: a negative page index, or a rectangle that has not exactly 4 coordinates
\* (an empty one included), gives the invalid-input sentinel and no document is
\* opened; the record of a field without /Rect has rect = [] and that sentinel
C5_InvalidSentinel ==
    /\ (DoneContext /\ (call.page_index < 0 \/ Len(call.field_rect_coords) # 4))
          => (ret.kind = "return" /\ ret.val = InvalidMsg /\ opened = 0)
    /\ (Done("extract_form_fields") /\ ret.kind = "return")
          => \A i \in 1..Len(ret.val) :
                call.pdf.fields[i].Rect.t = "Absent"
                    => (ret.val[i].rect = <<>> /\ ret.val[i].text = InvalidMsg)

\* a rectangle of three coordinates on a page that exists
C5_Witness ==
    /\ DoneContext
    /\ call.page_index = 0
    /\ Len(call.field_rect_coords) = 3
    /\ call.doc.openable
    /\ ret.val = InvalidMsg
    /\ opened = 0

\* C6: when the page is read and none of its words passes the left test, the
\* above test or the distance test, the result is the no-text sentinel; and the
\* result is that sentinel only when the three groups are empty
C6_NoTextSentinel ==
    DoneContext =>
        /\ (ReadsPage /\ WellFormed(PageOf(call).words)
               /\ \A i \in 1..Len(PageOf(call).words) :
                    LET w == PageOf(call).words[i]
                        rect == call.field_rect_coords
                        h == PageOf(call).height
                    IN  ~IsLeft(w, rect, h) /\ ~IsAbove(w, rect, h) /\ ~IsClose(w, rect, h))
              => ret.val = NoTextMsg
        /\ ret.val = NoTextMsg
              => (groups.left = <<>> /\ groups.above = <<>> /\ groups.closest = <<>>)

\* a page that holds a word, none near the field
C6_Witness ==
    /\ DoneContext
    /\ ReadsPage
    /\ PageOf(call).words # <<>>
    /\ ret.val = NoTextMsg

\* C7: the scenario of one word "Name:" at (30,75,65,85) on a page of height 792
\* and the field rectangle (100,700,200,715) gives "Left: Name:"
C7_Scenario ==
    /\ call.op = "get_contextual_text_for_field"
    /\ call.page_index = 0
    /\ call.field_rect_coords = <<100, 700, 200, 715>>
    /\ call.doc.openable
    /\ Len(call.doc.pages) = 1
    /\ call.doc.pages[1].height = 792
    /\ Len(call.doc.pages[1].words) = 1
    /\ LET w == call.doc.pages[1].words[1]
       IN  /\ w.arity = 8 /\ w.text = "Name:"
           /\ <<w.x0, w.y0, w.x1, w.y1>> = <<30, 75, 65, 85>>

C7_LeftName ==
    (pc = "done" /\ C7_Scenario) =>
        /\ ret.val = "Left: Name:"
        /\ Texts(groups.left) = <<"Name:">>
        /\ groups.above = <<>>
        /\ groups.closest = <<>>

C7_Witness ==
    pc = "done" /\ C7_Scenario /\ ret.val = "Left: Name:"

DoneFill == Done("fill_pdf_form")

\* the mapping a fill call is given, as a value or in the file it names
GivenMapping(c) ==
    IF c.field_mapping.t = "str" THEN JsonLoad(c.world.files[c.field_mapping.v].v).v
    ELSE c.field_mapping.v

GivesMapping(c) ==
    \/ c.field_mapping.t = "dict"
    \/ /\ c.field_mapping.t = "str"
       /\ c.field_mapping.v \in DOMAIN c.world.files
       /\ c.world.files[c.field_mapping.v].t = "json"
       /\ c.world.files[c.field_mapping.v].v.t = "object"

HasPdf(world, path) == path \in DOMAIN world.files /\ world.files[path].t = "pdf"

FieldNames(fields) ==
    {StrOfObject(Get(fields[i].T, PdfString(""))) : i \in 1..Len(fields)}

\* the names of the fields of the PDF a fill call reads
InputNames(c) ==
    IF HasPdf(c.world, c.input_pdf_path)
    THEN FieldNames(c.world.files[c.input_pdf_path].v.fields)
    ELSE {}

\* C9: in the saved PDF every field whose name is no key of the mapping has the
\* /V and /AS it had, and there are as many fields as before; the keys that name
\* no field are ignored: the call ends as it does without them
C9_FillFrame ==
    (DoneFill /\ GivesMapping(call)) =>
        LET mapping == GivenMapping(call)
            known == [k \in DOMAIN mapping \cap InputNames(call) |-> mapping[k]]
        IN  /\ ret.val =>
                LET before == call.world.files[call.input_pdf_path].v.fields
                    after == fs.files[call.output_pdf_path].v.fields
                IN  /\ Len(after) = Len(before)
                    /\ \A i \in 1..Len(before) :
                          StrOfObject(Get(before[i].T, PdfString(""))) \notin DOMAIN mapping
                              => (after[i].V = before[i].V /\ after[i].AS = before[i].AS)
            /\ FillPdfForm(call.world, call.input_pdf_path, PyDict(known),
                           call.output_pdf_path, call.save_fails)
                 = [ret |-> ret.val, world |-> fs, opened |-> opened, closed |-> closed]

\* the mapping names a field and a key that is no field, and the PDF holds a
\* field with a value that the mapping does not name
C9_Witness ==
    /\ DoneFill
    /\ GivesMapping(call)
    /\ ret.val
    /\ DOMAIN GivenMapping(call) \cap InputNames(call) # {}
    /\ DOMAIN GivenMapping(call) \ InputNames(call) # {}
    /\ \E i \in 1..Len(fs.files[call.output_pdf_path].v.fields) :
          LET f == fs.files[call.output_pdf_path].v.fields[i]
          IN  /\ StrOfObject(Get(f.T, PdfString(""))) \notin DOMAIN GivenMapping(call)
              /\ f.V.t # "Absent"

\* C10: the call returns False, opens no PDF and leaves the file system as it
\* was when the mapping is the path of a missing file, the path of a file that
\* is no JSON, a value that is no JSON object or dictionary, or when the input
\* PDF does not exist
C10_BadInput(c) ==
    \/ /\ c.field_mapping.t = "str"
       /\ \/ c.field_mapping.v \notin DOMAIN c.world.files
          \/ c.world.files[c.field_mapping.v].t # "json"
          \/ c.world.files[c.field_mapping.v].v.t # "object"
    \/ c.field_mapping.t \notin {"str", "dict"}
    \/ c.input_pdf_path \notin DOMAIN c.world.files

C10_FailsFast ==
    (DoneFill /\ C10_BadInput(call)) =>
        /\ ret.val = FALSE
        /\ fs = call.world
        /\ opened = 0

\* a mapping file that is no JSON, with a PDF that could have been filled and an
\* output directory that could have been made
C10_Witness ==
    /\ DoneFill
    /\ call.field_mapping.t = "str"
    /\ call.field_mapping.v \in DOMAIN call.world.files
    /\ call.world.files[call.field_mapping.v].t # "json"
    /\ HasPdf(call.world, call.input_pdf_path)
    /\ call.world.files[call.input_pdf_path].v.fields # <<>>
    /\ ~call.save_fails
    /\ call.world.dirs = {}
    /\ ret.val = FALSE
    /\ fs = call.world

\* the fill call opened a PDF with an /AcroForm under a mapping
FillRuns(c) ==
    /\ GivesMapping(c)
    /\ HasPdf(c.world, c.input_pdf_path)
    /\ c.world.files[c.input_pdf_path].v.acroform

FieldsBefore(c) == c.world.files[c.input_pdf_path].v.fields

NameOf(field) == StrOfObject(Get(field.T, PdfString("")))

\* the write of field i of the input raises: the mapping names the field and
\* the value cannot be written
WriteRaises(c, i) ==
    /\ NameOf(FieldsBefore(c)[i]) \in DOMAIN GivenMapping(c)
    /\ ~WriteField(FieldsBefore(c)[i], GivenMapping(c)[NameOf(FieldsBefore(c)[i])]).ok

\* C11: when the write of one field raises, the batch goes on: every later
\* field the mapping names is written as it would be alone, and, pdf.save being
\* able to write the output, the output file is saved and the call returns True
C11_BatchContinues ==
    (/\ DoneFill
     /\ FillRuns(call)
     /\ ~call.save_fails
     /\ call.output_pdf_path # call.input_pdf_path
     /\ \E i \in 1..Len(FieldsBefore(call)) : WriteRaises(call, i)) =>
        /\ ret.val = TRUE
        /\ HasPdf(fs, call.output_pdf_path)
        /\ LET before == FieldsBefore(call)
               after == fs.files[call.output_pdf_path].v.fields
               mapping == GivenMapping(call)
           IN  \A i \in 1..Len(before) : \A j \in (i + 1)..Len(before) :
                  (WriteRaises(call, i) /\ NameOf(before[j]) \in DOMAIN mapping) =>
                      after[j] = WriteField(before[j], mapping[NameOf(before[j])]).field

\* the write of the first field raised, the second field was written with a new
\* value, and the output was saved
C11_Witness ==
    /\ DoneFill
    /\ FillRuns(call)
    /\ Len(FieldsBefore(call)) = 2
    /\ WriteRaises(call, 1)
    /\ NameOf(FieldsBefore(call)[2]) \in DOMAIN GivenMapping(call)
    /\ ret.val = TRUE
    /\ HasPdf(fs, call.output_pdf_path)
    /\ fs.files[call.output_pdf_path].v.fields[2] # FieldsBefore(call)[2]
    /\ fs.files[call.output_pdf_path].v.fields[1] = FieldsBefore(call)[1]

\* the call wrote the output file: the file is there and was not there, or not
\* with this content, before
OutputWritten ==
    /\ call.output_pdf_path \in DOMAIN fs.files
    /\ \/ call.output_pdf_path \notin DOMAIN call.world.files
       \/ fs.files[call.output_pdf_path] # call.world.files[call.output_pdf_path]

\* C12: the call returns True exactly when it saved the output file, whatever
\* the number of fields filled and of writes that raised
C12_TrueIffSaved ==
    DoneFill => (ret.val = TRUE <=> OutputWritten)

\* True with a write that raised and no field filled
C12_Witness ==
    /\ DoneFill
    /\ FillRuns(call)
    /\ ret.val = TRUE
    /\ OutputWritten
    /\ \E i \in 1..Len(FieldsBefore(call)) : WriteRaises(call, i)
    /\ fs.files[call.output_pdf_path].v.fields = FieldsBefore(call)

\* the fields C13 is about: text and choice fields, fields of no known type, and
\* buttons given a value that is no boolean
WrittenAsString(field, value) ==
    LET field_type == StrOfObject(Get(field.FT, PdfString("")))
    IN  field_type # "/Btn" \/ value.t # "bool"

\* C13: in the saved PDF the /V of every such field the mapping names is a string,
\* and reads back as str() of the mapped value
C13_ReadsBack ==
    (DoneFill /\ FillRuns(call) /\ ret.val = TRUE) =>
        LET before == FieldsBefore(call)
            after == fs.files[call.output_pdf_path].v.fields
            mapping == GivenMapping(call)
        IN  \A i \in 1..Len(before) :
               (/\ NameOf(before[i]) \in DOMAIN mapping
                /\ WrittenAsString(before[i], mapping[NameOf(before[i])])) =>
                   /\ after[i].V.t = "String"
                   /\ StrOfObject(after[i].V) = StrOfValue(mapping[NameOf(before[i])])

\* "Name" filled with "Alice" reads back as "Alice", and a choice field filled
\* with True reads back as "True"
C13_Witness ==
    /\ DoneFill
    /\ FillRuns(call)
    /\ ret.val = TRUE
    /\ Len(FieldsBefore(call)) = 2
    /\ FieldsBefore(call)[1].FT = PdfName("/Tx")
    /\ FieldsBefore(call)[2].FT = PdfName("/Ch")
    /\ "Name" \in DOMAIN GivenMapping(call)
    /\ GivenMapping(call)["Name"] = PyStr("Alice")
    /\ "Color" \in DOMAIN GivenMapping(call)
    /\ GivenMapping(call)["Color"] = PyBool(TRUE)
    /\ StrOfObject(fs.files[call.output_pdf_path].v.fields[1].V) = "Alice"
    /\ StrOfObject(fs.files[call.output_pdf_path].v.fields[2].V) = "True"

\* the state C14 names for a checked box: the first key of /AP /N other than
\* "Off", or "Yes"
CheckedState(field) ==
    LET others == SelectSeq(field.APN, LAMBDA k : k # "/Off")
    IN  IF others # <<>> THEN others[1] ELSE "/Yes"

\* C14: in the saved PDF a button the mapping gives True has /V and /AS at its
\* checked state, and a button the mapping gives False has both at "Off"
C14_CheckboxStates ==
    (DoneFill /\ FillRuns(call) /\ ret.val = TRUE) =>
        LET before == FieldsBefore(call)
            after == fs.files[call.output_pdf_path].v.fields
            mapping == GivenMapping(call)
        IN  \A i \in 1..Len(before) :
               (/\ NameOf(before[i]) \in DOMAIN mapping
                /\ ~WrittenAsString(before[i], mapping[NameOf(before[i])])) =>
                   LET state == IF mapping[NameOf(before[i])].v
                                THEN CheckedState(before[i]) ELSE "/Off"
                   IN  /\ after[i].V.t # "Absent"
                       /\ after[i].AS.t # "Absent"
                       /\ StrOfObject(after[i].V) = state
                       /\ StrOfObject(after[i].AS) = state

\* C15: after the call the file at input_pdf_path is what it was before
C15_InputUntouched ==
    DoneFill =>
        /\ call.input_pdf_path \in DOMAIN fs.files
               <=> call.input_pdf_path \in DOMAIN call.world.files
        /\ call.input_pdf_path \in DOMAIN fs.files =>
               fs.files[call.input_pdf_path] = call.world.files[call.input_pdf_path]

\* the output path is the input path, and the mapping names a field with a value
\* the field does not hold
C15_Witness ==
    /\ DoneFill
    /\ FillRuns(call)
    /\ call.output_pdf_path = call.input_pdf_path
    /\ \E i \in 1..Len(FieldsBefore(call)) :
          /\ NameOf(FieldsBefore(call)[i]) \in DOMAIN GivenMapping(call)
          /\ WriteField(FieldsBefore(call)[i],
                        GivenMapping(call)[NameOf(FieldsBefore(call)[i])]).field
               # FieldsBefore(call)[i]
    /\ ret.val = FALSE
    /\ fs = call.world

DoneMapping == Done("acroform_mapping_using_gemini")

\* the text file of a mapping call is missing, cannot be read, or holds nothing
\* but whitespace
NoSourceText(c) ==
    \/ ~Exists(c.world, c.txt_path)
    \/ c.txt_path \in c.world.dirs
    \/ c.world.files[c.txt_path].t # "text"
    \/ \A i \in 1..Len(c.world.files[c.txt_path].v) :
          SubSeq(c.world.files[c.txt_path].v, i, i) \in {" ", "\n", "\t", "\r"}

\* the field list is empty or holds no field with a name
NoNamedField(c) ==
    \A i \in 1..Len(c.form_fields) :
       \/ c.form_fields[i].t # "dict"
       \/ "name" \notin DOMAIN c.form_fields[i].v
       \/ c.form_fields[i].v["name"] = ""

\* C16: without a source text, or without a named field, the call makes no
\* call of the API, returns the empty mapping and writes nothing
C16_NoCallWithoutInput ==
    (DoneMapping /\ (NoSourceText(call) \/ NoNamedField(call))) =>
        /\ api = 0
        /\ ret = [kind |-> "return", val |-> EmptyMapping]
        /\ fs = call.world

\* a text file of whitespace, with a named field and an API that would have
\* answered with a mapping
C16_Witness ==
    /\ DoneMapping
    /\ call.txt_path \in DOMAIN call.world.files
    /\ call.world.files[call.txt_path] = [t |-> "text", v |-> " \n\t"]
    /\ ~NoNamedField(call)
    /\ call.outcome = [kind |-> "text", text |-> "{\"Name\": \"Alice\"}"]
    /\ api = 0
    /\ ret.val = EmptyMapping

\* the call of the API is made and gives a response with a text
Responds(c) ==
    /\ ~NoSourceText(c)
    /\ ~NoNamedField(c)
    /\ c.outcome.kind = "text"

\* the response, as it is, is JSON but no object
NonObjectJson(text) == JsonLoads(text).ok /\ JsonLoads(text).v.t # "dict"

\* no JSON can be read from the response, as it is or between its first "{" and
\* its last "}"
MalformedJson(text) ==
    LET first == FindFrom(text, "{", 1)
        last == FindBack(text, "}", Len(text))
    IN  /\ ~JsonLoads(text).ok
        /\ ~(first # 0 /\ last # 0 /\ JsonLoads(SubSeq(text, first, last)).ok)

\* C17: a response that is malformed JSON, or JSON that is no object (an array,
\* an array that holds an object, a string, a number), gives the empty mapping,
\* and nothing is written
C17_NonObjectGivesEmpty ==
    (/\ DoneMapping
     /\ Responds(call)
     /\ MalformedJson(call.outcome.text) \/ NonObjectJson(call.outcome.text)) =>
        /\ ret = [kind |-> "return", val |-> EmptyMapping]
        /\ fs = call.world

\* C18: an error raised by the call of the API is caught: the call returns the
\* empty mapping, raises nothing and writes nothing
C18_ApiErrorCaught ==
    (/\ DoneMapping
     /\ ~NoSourceText(call)
     /\ ~NoNamedField(call)
     /\ call.outcome.kind = "raises") =>
        /\ api = 1
        /\ ret = [kind |-> "return", val |-> EmptyMapping]
        /\ fs = call.world

\* the API raised, with the mapping of an earlier run at the output path
C18_Witness ==
    /\ DoneMapping
    /\ call.outcome.kind = "raises"
    /\ api = 1
    /\ ret = [kind |-> "return", val |-> EmptyMapping]
    /\ call.output_json_path \in DOMAIN fs.files
    /\ fs.files[call.output_json_path].v = StaleMapping

\* the call returns a mapping parsed from the response
Successful(c) ==
    /\ Responds(c)
    /\ ResponseMapping(c.outcome.text).ok
    /\ ResponseMapping(c.outcome.text).v.t = "dict"

\* the JSON file at path holds exactly the mapping
Holds(world, path, mapping) ==
    /\ path \in DOMAIN world.files
    /\ world.files[path].t = "json"
    /\ JsonLoad(world.files[path].v) = PyDict(mapping)

DoneExtract == Done("extract_form_fields")

\* C20: the catalog a call returns for a PDF with an /AcroForm has one record
\* for each entry of /Fields, in the order of /Fields: record i is the record
\* of entry i, whatever the names of the other entries
C20_OneRecordPerField ==
    (DoneExtract /\ call.pdf.acroform /\ ret.kind = "return") =>
        /\ Len(ret.val) = Len(call.pdf.fields)
        /\ \A i \in 1..Len(call.pdf.fields) :
              /\ ret.val[i].name = StrOfObject(Get(call.pdf.fields[i].T, PdfString("")))
              /\ ret.val[i].type = StrOfObject(Get(call.pdf.fields[i].FT, PdfString("")))
              /\ ret.val[i] = FieldRecord(call.pdf.fields[i], call.pdf.doc).val

\* two entries with one name gave two records
C20_Witness ==
    /\ DoneExtract
    /\ ret.kind = "return"
    /\ Len(call.pdf.fields) = 2
    /\ call.pdf.fields[1].T = call.pdf.fields[2].T
    /\ Len(ret.val) = 2
    /\ ret.val[1].name = "Name"
    /\ ret.val[2].name = "Name"

DoneOptions == Done("get_field_options")

\* an /Opt item of one of the kinds C21 names
NamedKind(item) ==
    item.t \in {"String", "Name"} \/ (item.t = "Array" /\ Len(item.v) = 2)

\* the label C21 gives for an item of those kinds
LabelOf(item) ==
    CASE item.t = "String" -> item.v
      [] item.t = "Name" -> item.v
      [] item.t = "Array" /\ item.v[2].t = "String" -> item.v[2].v
      [] item.t = "Array" /\ item.v[2].t # "String" /\ item.v[1].t = "String" -> item.v[1].v
      [] OTHER -> "[Non-string option: " \o StrOfObject(item.v[1]) \o ", "
                  \o StrOfObject(item.v[2]) \o "]"

\* C21: without /Opt the labels are []; for an /Opt array of strings, pairs and
\* names there is one label for each item, in the order of the items, and
\* equal items give equal labels side by side
C21_OptionLabels ==
    DoneOptions =>
        LET opt == call.field_obj.Opt
        IN  /\ opt.t = "Absent" => ret.val = <<>>
            /\ (opt.t = "Array" /\ \A i \in 1..Len(opt.v) : NamedKind(opt.v[i])) =>
                  /\ Len(ret.val) = Len(opt.v)
                  /\ \A i \in 1..Len(opt.v) : ret.val[i] = LabelOf(opt.v[i])
            /\ opt = PdfArray(<<PdfArray(<<PdfString("export1"), PdfString("Display One")>>)>>)
                  => ret.val = <<"Display One">>
            /\ opt = PdfArray(<<PdfString("OptA"), PdfString("OptB")>>)
                  => ret.val = <<"OptA", "OptB">>
            /\ opt = PdfArray(<<PdfArray(<<PdfInteger(1), PdfInteger(2)>>)>>)
                  => ret.val = <<"[Non-string option: 1, 2]">>

\* a pair of two strings twice: the display value, twice
C21_Witness ==
    /\ DoneOptions
    /\ call.field_obj.Opt =
          PdfArray(<<PdfArray(<<PdfString("export1"), PdfString("Display One")>>),
                     PdfArray(<<PdfString("export1"), PdfString("Display One")>>)>>)
    /\ ret.val = <<"Display One", "Display One">>

DoneFlip == Done("flip_y")

RanPasses == DoneContext /\ ReadsPage /\ WellFormed(PageOf(call).words)

\* the position of word i among the words of Q, Before(j, i) saying that word j
\* goes before word i
RankIn(Q, i, Before(_, _)) == Cardinality({j \in Q : Before(j, i)}) + 1

\* group holds the first three (or fewer) of the words of Q, in that order
IsFirstThree(group, words, Q, Before(_, _)) ==
    /\ Len(group) = Min2(3, Cardinality(Q))
    /\ \A i \in Q :
          RankIn(Q, i, Before) <= 3 =>
              /\ group[RankIn(Q, i, Before)].id = words[i].id
              /\ group[RankIn(Q, i, Before)].text = words[i].text

\* the left-of test of C23, on word w and field rectangle (x0, yLower, x1, yUpper)
LeftTest(w, rect, h) ==
    LET top == h - rect[4]
        bottom == h - rect[2]
    IN  /\ w.x1 < rect[1]
        /\ rect[1] - w.x1 < 70
        /\ \/ (w.y1 - top < 10 /\ top - w.y1 < 10)
           \/ (w.y0 - bottom < 10 /\ bottom - w.y0 < 10)
           \/ (w.y0 < bottom /\ w.y1 > top)

\* the words of the page that pass the left-of test
LeftQ == {i \in 1..Len(PageOf(call).words) :
             LeftTest(PageOf(call).words[i], call.field_rect_coords, PageOf(call).height)}

\* right edge descending, then top edge ascending, then the order of the page
LeftBefore(j, i) ==
    LET v == PageOf(call).words[j]
        w == PageOf(call).words[i]
    IN  \/ v.x1 > w.x1
        \/ (v.x1 = w.x1 /\ v.y0 < w.y0)
        \/ (v.x1 = w.x1 /\ v.y0 = w.y0 /\ j < i)

\* C23: the Left group is the first three (or fewer) of the words that pass the
\* left-of test, by right edge descending, then top edge ascending, words that
\* tie on both in the order of the page
C23_LeftExact ==
    RanPasses => IsFirstThree(groups.left, PageOf(call).words, LeftQ, LeftBefore)

\* four words pass the test, two of them tie on both keys and are kept in the
\* order of the page
C23_Witness ==
    /\ RanPasses
    /\ Cardinality(LeftQ) = 4
    /\ Texts(groups.left) = <<"Your", "Full", "Name:">>

\* the above test of C24
AboveTest(w, rect, h) ==
    LET top == h - rect[4]
    IN  /\ w.y1 < top
        /\ top - w.y1 < 30
        /\ (IF rect[1] > w.x0 THEN rect[1] ELSE w.x0)
              < (IF rect[3] < w.x1 THEN rect[3] ELSE w.x1) + 50

\* the words the left heuristic did not claim that pass the above test
AboveQ == {i \in 1..Len(PageOf(call).words) :
              /\ PageOf(call).words[i].id \notin IdsOf(groups.left)
              /\ AboveTest(PageOf(call).words[i], call.field_rect_coords,
                           PageOf(call).height)}

\* bottom edge descending, then left edge ascending, then the order of the page
AboveBefore(j, i) ==
    LET v == PageOf(call).words[j]
        w == PageOf(call).words[i]
    IN  \/ v.y1 > w.y1
        \/ (v.y1 = w.y1 /\ v.x0 < w.x0)
        \/ (v.y1 = w.y1 /\ v.x0 = w.x0 /\ j < i)

\* C24: the Above group is the first three (or fewer) of the words not claimed
\* by the left heuristic that pass the above test, by bottom edge descending,
\* then left edge ascending
C24_AboveExact ==
    RanPasses => IsFirstThree(groups.above, PageOf(call).words, AboveQ, AboveBefore)

\* four unclaimed words pass the test, one of them only by the tolerance of 50,
\* and a word the left heuristic claimed passes it too
C24_Witness ==
    /\ RanPasses
    /\ Cardinality(AboveQ) = 4
    /\ Texts(groups.above) = <<"Label", "Here", "Top">>
    /\ \E i \in 1..Len(PageOf(call).words) :
          /\ PageOf(call).words[i].id \in IdsOf(groups.left)
          /\ AboveTest(PageOf(call).words[i], call.field_rect_coords, PageOf(call).height)

\* four times the squared distance of C25: between the center of the word, its
\* Y taken as h - centerY, and the center of the field rectangle
CenterDistance4(w, rect, h) ==
    LET wx2 == w.x0 + w.x1
        wy2 == 2 * h - (w.y0 + w.y1)
        fx2 == rect[1] + rect[3]
        fy2 == rect[2] + rect[4]
    IN  (wx2 - fx2) * (wx2 - fx2) + (wy2 - fy2) * (wy2 - fy2)

\* the words claimed by neither heuristic that are nearer than 150
ClosestQ == {i \in 1..Len(PageOf(call).words) :
                /\ PageOf(call).words[i].id \notin IdsOf(groups.left)
                /\ PageOf(call).words[i].id \notin IdsOf(groups.above)
                /\ CenterDistance4(PageOf(call).words[i], call.field_rect_coords,
                                   PageOf(call).height) < 4 * 150 * 150}

\* distance ascending, then the order of the page
ClosestBefore(j, i) ==
    LET dv == CenterDistance4(PageOf(call).words[j], call.field_rect_coords,
                              PageOf(call).height)
        dw == CenterDistance4(PageOf(call).words[i], call.field_rect_coords,
                              PageOf(call).height)
    IN  dv < dw \/ (dv = dw /\ j < i)

Segment(label, group) ==
    IF group = <<>> THEN <<>>
    ELSE <<label \o Join(" ", [i \in 1..Len(group) |-> group[i].text])>>

\* C26: when a group is non-empty the returned context is the segments of the
\* non-empty groups in the order Closest, Left, Above, joined by " | "
C26_SegmentOrder ==
    (RanPasses /\ (groups.closest # <<>> \/ groups.left # <<>> \/ groups.above # <<>>)) =>
        ret.val = Join(" | ", Segment("Closest: ", groups.closest)
                               \o Segment("Left: ", groups.left)
                               \o Segment("Above: ", groups.above))

\* the three groups are non-empty, the Left group with two words
C26_Witness ==
    /\ RanPasses
    /\ ret.val = "Closest: Below | Left: Your Full | Above: Label"

\* word i of the page passed the left test and the cap of three cut it
CutByLeft(i) ==
    /\ i \in LeftQ
    /\ PageOf(call).words[i].id \notin IdsOf(groups.left)

\* word i of the page passed the above test unclaimed and the cap of three cut it
CutByAbove(i) ==
    /\ i \in AboveQ
    /\ PageOf(call).words[i].id \notin IdsOf(groups.above)

\* C30: a word that passes the left test and is cut by the cap of three is not
\* claimed: if it passes the above test it is among the first three there or
\* else stays a candidate of Closest, and so does a word cut by the above cap
C30_CutWordsStayEligible ==
    RanPasses =>
        \A i \in 1..Len(PageOf(call).words) :
            LET id == PageOf(call).words[i].id
            IN  /\ (CutByLeft(i) /\ i \in AboveQ /\ RankIn(AboveQ, i, AboveBefore) <= 3)
                       => id \in IdsOf(groups.above)
                /\ (CutByLeft(i) /\ i \in ClosestQ /\ RankIn(ClosestQ, i, ClosestBefore) <= 3)
                       => id \in IdsOf(groups.closest)
                /\ (CutByAbove(i) /\ i \in ClosestQ /\ RankIn(ClosestQ, i, ClosestBefore) <= 3)
                       => id \in IdsOf(groups.closest)

\* the fourth word left of the field is output by the above heuristic
C30_Witness ==
    /\ RanPasses
    /\ \E i \in 1..Len(PageOf(call).words) :
          /\ CutByLeft(i)
          /\ PageOf(call).words[i].id \in IdsOf(groups.above)

\* the fourth word above the field is output by the closest heuristic
CutByAboveInClosest ==
    /\ RanPasses
    /\ \E i \in 1..Len(PageOf(call).words) :
          /\ CutByAbove(i)
          /\ PageOf(call).words[i].id \in IdsOf(groups.closest)

\* C29 as stated: the page entry of every record of the catalog is an integer,
\* the page index that the context call of the field was given (0 without /Page)
C29_PageIsInteger ==
    (DoneExtract /\ ret.kind = "return") =>
        \A i \in 1..Len(ret.val) :
            /\ ret.val[i].page.t = "int"
            /\ ret.val[i].page.v = PageInt(call.pdf.fields[i])

\* a catalog with the record of a field that has no /Page
RecordWithoutPage ==
    /\ DoneExtract
    /\ ret.kind = "return"
    /\ \E i \in 1..Len(ret.val) :
          /\ call.pdf.fields[i].Page.t = "Absent"
          /\ ret.val[i].page = [t |-> "str", v |-> "0"]

DoneScript == Done("auto_fill")

\* the run reached the fill stage
FillStageRan == DoneScript /\ ret.kind = "return" /\ ret.val.fill_ran

\* C28 as stated: the fill stage runs only when the Value Mapper returned a
\* mapping that is not empty, and the mapping the Form Writer applies is the
\* mapping returned in this run
C28_FillAppliesReturnedMapping ==
    FillStageRan =>
        /\ ret.val.mapping # <<>>
        /\ ret.val.applied.ok => ret.val.applied.v = PyDict(ret.val.mapping)

\* the mapper returned Name = Alice and the filled form holds the Name = Bob of
\* the file that an earlier run left
EarlierMappingApplied ==
    /\ FillStageRan
    /\ ret.val.mapping = [Name |-> PyStr("Alice")]
    /\ ret.val.filled_pdf_path = "output/acroform_filled.pdf"
    /\ \E i \in 1..Len(fs.files[ret.val.filled_pdf_path].v.fields) :
          LET f == fs.files[ret.val.filled_pdf_path].v.fields[i]
          IN  StrOfObject(f.T) = "Name" /\ StrOfObject(f.V) = "Bob"
                 /\ StrOfObject(call.world.files["input/acroform.pdf"].v.fields[i].V) # "Bob"

\* the file of the run was written and the form filled from it
ReturnedMappingApplied ==
    /\ FillStageRan
    /\ ret.val.filled_pdf_path # ""
    /\ ret.val.applied.v = PyDict(ret.val.mapping)
    /\ "output/auto_fill_results.json" \in DOMAIN call.world.files

DoneDescriptions == Done("add_llm_field_descriptions")

\* the call of add_llm_field_descriptions reaches its request
Requests(c) ==
    /\ c.form_fields.t = "list"
    /\ c.has_client
    /\ ValidFieldNames(c.form_fields.v) # {}

\* C27: one invocation of acroform_mapping_using_gemini, and one of
\* add_llm_field_descriptions, calls the API at most once, whether the call
\* succeeds, raises, or gives a response that cannot be parsed; an invocation
\* that reaches its request calls it exactly once
C27_NoRetries ==
    /\ (DoneMapping \/ DoneDescriptions) => api <= 1
    /\ (DoneDescriptions /\ Requests(call)) => api = 1
    /\ (DoneMapping /\ ~NoSourceText(call) /\ ~NoNamedField(call)) => api = 1

\* the request raised: it was made once and the records are as they were
C27_Witness ==
    /\ DoneDescriptions
    /\ Requests(call)
    /\ call.outcome.kind = "raises"
    /\ api = 1
    /\ ret.val = call.form_fields

\* the descriptions of the response are in the records, stripped
DescriptionsAdded ==
    /\ DoneDescriptions
    /\ call.outcome.text = "{\"Name\": \" The full name. \"}"
    /\ Len(ret.val.v) = 2
    /\ ret.val.v[1] = PyDict([name |-> "Name", understanding |-> "The full name."])
    /\ ret.val.v[2] = PyDict([name |-> "Agree"])

====
